---- MODULE Spec2Model ----
(***************************************************************************)
(* Partitioned Authority Sessions (PAN): the interaction-proof-gated       *)
(* signing and verification protocol.                                      *)
(*                                                                         *)
(*   - the API server: session store, nonce store, verifyRequest           *)
(*     (api-server/src/store.ts, api-server/src/server.ts, crypto.ts,      *)
(*     the server-side validator);                                         *)
(*   - the signing iframe: handleMessage / handleInit / handleGetPublicKey *)
(*     / handleSign over the IndexedDB key store;                          *)
(*   - the canonical codec and the two proof validators as pure operators. *)
(*                                                                         *)
(*   - the main application: the interaction tracker (unnamed/part_012),   *)
(*     the session manager and the login / logout / protected-action       *)
(*     handlers (main-app/src/lib/session-manager.ts, unnamed/part_001),   *)
(*     the signing client (main-app/src/lib/signing-client.ts).            *)
(*                                                                         *)
(* The specifications share the variables:                                 *)
(*   Spec        the API server with concurrent protected requests         *)
(*   SpecSigner  the signing iframe with interleaved message handlers      *)
(*   SpecCodec   canonicalisation and the sign/verify round trip           *)
(*   SpecProof   the two proof validators on drawn proofs                  *)
(*   SpecTracker the interaction tracker under gestures and proof requests *)
(*   SpecApp     the main application against the server and the iframe    *)
(*   SpecClient  the signing client: requests, responses and timeouts      *)
(*   SpecClientLive  SpecClient with its timers and the clock made fair    *)
(*   SpecStore   the server's store as time passes, GET /api/nonce in steps *)
(*   SpecBuffers the tracker's buffers at their caps, and mouse velocity   *)
(*   SpecSession the server with GET /api/session/info                     *)
(*   SpecReplay  captured requests sent again with one field altered       *)
(*   SpecFrame   requests turned away before the nonce step                *)
(*   SpecShared  two sessions and one nonce                                *)
(*   SpecRequest APIClient.request over the tracker, step by step          *)
(* Each one holds the variables of the others at their idle value.         *)
(***************************************************************************)
EXTENDS Integers, Sequences, FiniteSets, TLC

VARIABLES
    \* ---- API server (store.ts, server.ts)
    redis,            \* TRUE: the Redis client is connected; FALSE: in-memory fallback
    inMemoryStore,    \* key -> value   (Map; with Redis: the Redis keyspace)
    inMemoryExpiry,   \* key -> expiry time in ms (Map; with Redis: the key's TTL deadline)
    now,              \* Date.now()
    ticks,            \* number of clock advances so far (bounds the clock)
    reqs,             \* protected requests in flight or answered: id -> record
    generated,        \* values crypto.getRandomValues has produced (nonces, session ids)
    signedReqs,       \* requests the client has assembled from signer output
    returnedTrue,     \* nonces for which a validateAndConsumeNonce call has returned true
    deleted,          \* session ids for which a deleteSession call has completed
    nonceReqs,        \* GET /api/nonce invocations in flight or answered: id -> record
    infoReqs,         \* GET /api/session/info invocations answered: id -> response
    \* ---- signing iframe (unnamed/part_000, key-storage.ts)
    keyStore,         \* IndexedDB object store "keys": the stored key pair, or Nil
    keysMade,         \* number of key pairs generateKey has produced
    handlers,         \* handleMessage invocations, running or returned: id -> record
    outbox,           \* responses posted by the iframe: sequence of records
    \* ---- pure-function harnesses
    codecIn, codecOut,
    proofIn, proofOut,
    \* ---- main application: InteractionTracker (unnamed/part_012)
    interactions,     \* this.interactions: the pool of recorded interactions
    gestures,         \* number of physical gestures the user has made so far
    proofsGiven,      \* what each getInteractionProof call returned, in call order
    clock,            \* Date.now() in the page
    lastVelocity,     \* this.lastVelocity
    trajectoryPoints, \* this.trajectoryPoints: the buffer of mouse positions
    moves,            \* number of mousemove events so far
    \* ---- main application: SessionManager and page handlers
    sessionManager,   \* the SessionManager instance: sessionId, user, publicKey
    loginPending,     \* handleLogin between initialize() and login(): the public key, or Nil
    loggedOut,        \* session ids for which SessionManager.logout() has completed
    outcomes,         \* how each performSecureAction call ended, in call order
    apiCalls,         \* APIClient.request calls, running or ended, in call order
    \* ---- main application: SigningClient (signing-client.ts)
    isReady,          \* this.isReady
    pendingRequests,  \* this.pendingRequests: requestId -> the entry's timer deadline
    calls,            \* sendRequest calls that set their timer, in order: the promise each one returned
    readyWaits        \* sendRequest calls made before READY, in call order: their waitReady()

serverVars == <<redis, inMemoryStore, inMemoryExpiry, now, ticks, reqs,
                generated, signedReqs, returnedTrue, deleted>>
endpointVars == <<nonceReqs, infoReqs>>
signerVars == <<keyStore, keysMade, handlers, outbox>>
codecVars  == <<codecIn, codecOut>>
proofVars  == <<proofIn, proofOut>>
trackerVars == <<interactions, gestures, proofsGiven, clock, lastVelocity>>
bufferVars == <<trajectoryPoints, moves>>
pageVars   == <<sessionManager, loginPending, loggedOut, outcomes, apiCalls>>
clientVars == <<isReady, pendingRequests, calls, readyWaits>>
appVars    == <<trackerVars, bufferVars, pageVars, clientVars>>
vars == <<serverVars, endpointVars, signerVars, codecVars, proofVars, appVars>>

\* An empty slot: None where strings are kept, Nil where records are kept.
None == "<none>"
Nil  == [t |-> "nil"]

-----------------------------------------------------------------------------
(***************************************************************************)
(* JSON-like values.  A value is a record tagged by t:                     *)
(*   null, undef (JavaScript undefined), nan (the number NaN),             *)
(*   bool / num / str with v, arr with v a sequence of values,             *)
(*   obj with v a sequence of [k, val] pairs in insertion order.           *)
(* Strings are drawn from an alphabet that JSON.stringify does not escape. *)
(***************************************************************************)
JNull      == [t |-> "null"]
JUndef     == [t |-> "undef"]
JNaN       == [t |-> "nan"]
JBool(b)   == [t |-> "bool", v |-> b]
JNum(n)    == [t |-> "num", v |-> n]
JStr(s)    == [t |-> "str", v |-> s]
JArr(s)    == [t |-> "arr", v |-> s]
JObj(ps)   == [t |-> "obj", v |-> ps]
KV(k, val) == [k |-> k, val |-> val]

\* Object.keys(obj): the keys in insertion order.
ObjectKeys(obj) == [i \in 1..Len(obj.v) |-> obj.v[i].k]

\* obj[key]: the property's value, undefined when absent (or when obj is
\* no object; property access on null or undefined throws and is handled
\* by the callers).
Prop(obj, key) ==
    IF obj.t = "obj" /\ \E i \in 1..Len(obj.v) : obj.v[i].k = key
    THEN obj.v[CHOOSE i \in 1..Len(obj.v) : obj.v[i].k = key].val
    ELSE JUndef

\* Every property name the model uses, in UTF-16 code-unit order: the order
\* Array.prototype.sort() gives strings when called without a comparator.
KeyOrder ==
    << "acceleration", "action", "actionContext", "actionHash", "amount",
       "context", "displayName", "freshness", "nonce", "payload",
       "position", "target", "timestamp", "to", "trajectory", "type",
       "velocity", "x", "y" >>

KeyRank(k) == CHOOSE i \in 1..Len(KeyOrder) : KeyOrder[i] = k

\* Object.keys(obj) used as it comes, without sort().
SortKeys_InsertionOrder(keys) == keys

\* keys.sort(): the same keys in ascending code-unit order.
RECURSIVE SortKeys(_)
SortKeys(keys) ==
    IF Len(keys) = 0 THEN <<>>
    ELSE LET m == CHOOSE i \in 1..Len(keys) :
                      \A j \in 1..Len(keys) : KeyRank(keys[i]) <= KeyRank(keys[j])
             rest == [i \in 1..(Len(keys) - 1) |->
                          IF i < m THEN keys[i] ELSE keys[i + 1]]
         IN  <<keys[m]>> \o SortKeys(rest)

\* items.join(","): the strings separated by commas.
RECURSIVE Join(_)
Join(items) ==
    IF Len(items) = 0 THEN ""
    ELSE IF Len(items) = 1 THEN items[1]
    ELSE items[1] \o "," \o Join(Tail(items))

\* JSON.stringify of a string: the text in double quotes.
QuoteString(s) == "\"" \o s \o "\""

\* JSON.stringify of a boolean or a number; NaN serialises as null.
StringifyPrimitive(value) ==
    IF value.t = "nan" THEN "null"
    ELSE IF value.t = "bool" THEN (IF value.v THEN "true" ELSE "false")
    ELSE ToString(value.v)

-----------------------------------------------------------------------------
(***************************************************************************)
(* CanonicalCodec, server side (api-server/src/crypto.ts).                 *)
(***************************************************************************)
RECURSIVE canonicalize(_)
canonicalize(value) ==
    IF value.t = "null" THEN "null"
    ELSE IF value.t = "undef" THEN "null"
    ELSE IF value.t \in {"bool", "num", "nan"} THEN StringifyPrimitive(value)
    ELSE IF value.t = "str" THEN QuoteString(value.v)
    ELSE IF value.t = "arr"
    THEN "[" \o Join([i \in 1..Len(value.v) |-> canonicalize(value.v[i])]) \o "]"
    ELSE IF value.t = "obj"
    THEN LET sortedKeys == SortKeys(ObjectKeys(value))
             pairs == [i \in 1..Len(sortedKeys) |->
                          QuoteString(sortedKeys[i]) \o ":"
                              \o canonicalize(Prop(value, sortedKeys[i]))]
         IN  "{" \o Join(pairs) \o "}"
    ELSE "null"

createCanonicalMessage(action, proof, nonce) ==
    canonicalize(action) \o "|" \o canonicalize(proof) \o "|" \o nonce

(***************************************************************************)
(* CanonicalCodec, signing side (the crypto-service copy in store.ts).     *)
(***************************************************************************)
RECURSIVE canonicalizeSigner(_)
canonicalizeSigner(value) ==
    IF value.t = "null" THEN "null"
    ELSE IF value.t = "undef" THEN "null"
    ELSE IF value.t \in {"bool", "num", "nan"} THEN StringifyPrimitive(value)
    ELSE IF value.t = "str" THEN QuoteString(value.v)
    ELSE IF value.t = "arr"
    THEN "[" \o Join([i \in 1..Len(value.v) |-> canonicalizeSigner(value.v[i])]) \o "]"
    ELSE IF value.t = "obj"
    THEN LET sortedKeys == SortKeys(ObjectKeys(value))
             pairs == [i \in 1..Len(sortedKeys) |->
                          QuoteString(sortedKeys[i]) \o ":"
                              \o canonicalizeSigner(Prop(value, sortedKeys[i]))]
         IN  "{" \o Join(pairs) \o "}"
    ELSE "null"

\* A signing side that joins the parts with ':' instead of '|'.
createCanonicalMessageSigner_Colon(action, proof, nonce) ==
    canonicalizeSigner(action) \o ":" \o canonicalizeSigner(proof) \o ":" \o nonce

createCanonicalMessageSigner(action, proof, nonce) ==
    canonicalizeSigner(action) \o "|" \o canonicalizeSigner(proof) \o "|" \o nonce

(***************************************************************************)
(* CanonicalCodec, the crypto-service variant of part_004 (lines 130-149): *)
(* JSON.stringify(value, Object.keys(value).sort()).  The array given as   *)
(* replacer is the property list of the whole serialisation: of every      *)
(* object, nested ones and array members included, only the properties     *)
(* named in it are written, in the list's order; a property whose value is *)
(* undefined is left out, an undefined array member is written as null.    *)
(***************************************************************************)
RECURSIVE stringifyWithList(_, _)
stringifyWithList(value, propertyList) ==
    IF value.t = "null" THEN "null"
    ELSE IF value.t \in {"bool", "num", "nan"} THEN StringifyPrimitive(value)
    ELSE IF value.t = "str" THEN QuoteString(value.v)
    ELSE IF value.t = "arr"
    THEN "[" \o Join([i \in 1..Len(value.v) |->
                         IF value.v[i].t = "undef" THEN "null"
                         ELSE stringifyWithList(value.v[i], propertyList)]) \o "]"
    ELSE IF value.t = "obj"
    THEN LET written == SelectSeq(propertyList, LAMBDA k : Prop(value, k).t # "undef")
             pairs == [i \in 1..Len(written) |->
                          QuoteString(written[i]) \o ":"
                              \o stringifyWithList(Prop(value, written[i]), propertyList)]
         IN  "{" \o Join(pairs) \o "}"
    ELSE "undefined"

createCanonicalMessageStringify(action, proof, nonce) ==
    stringifyWithList(action, SortKeys(ObjectKeys(action)))
        \o "|" \o stringifyWithList(proof, SortKeys(ObjectKeys(proof)))
        \o "|" \o nonce

-----------------------------------------------------------------------------
(***************************************************************************)
(* The JavaScript operations the validators apply to proof fields.         *)
(***************************************************************************)
IsNullish(v) == v.t \in {"null", "undef"}

\* Boolean(v): what `!v` and `v && ...` test.
Truthy(v) ==
    IF v.t \in {"null", "undef", "nan"} THEN FALSE
    ELSE IF v.t = "bool" THEN v.v
    ELSE IF v.t = "num" THEN v.v # 0
    ELSE IF v.t = "str" THEN v.v # ""
    ELSE TRUE

\* Number(v), for the operands of -, < and >.  The model's non-empty
\* strings are not numerals, and its arrays and objects are not coerced to
\* a number.
ToNumber(v) ==
    IF v.t = "num" THEN v
    ELSE IF v.t = "null" THEN JNum(0)
    ELSE IF v.t = "bool" THEN JNum(IF v.v THEN 1 ELSE 0)
    ELSE IF v.t = "str" /\ v.v = "" THEN JNum(0)
    ELSE JNaN

\* a - b
Minus(a, b) ==
    LET x == ToNumber(a)
        y == ToNumber(b)
    IN  IF x.t = "num" /\ y.t = "num" THEN JNum(x.v - y.v) ELSE JNaN

\* A comparison that also holds for equal numbers.
Greater_OrEqual(a, b) ==
    LET x == ToNumber(a)
        y == ToNumber(b)
    IN  x.t = "num" /\ y.t = "num" /\ x.v >= y.v

\* a > b and a < b with a number on one side: false when either is NaN.
Greater(a, b) ==
    LET x == ToNumber(a)
        y == ToNumber(b)
    IN  x.t = "num" /\ y.t = "num" /\ x.v > y.v

Less(a, b) == Greater(b, a)

\* a === b on the model's values: same type and same primitive value;
\* two arrays or objects that were parsed separately are never identical.
StrictEquals(a, b) ==
    /\ a.t = b.t
    /\ a.t \in {"null", "undef", "bool", "num", "str"}
    /\ (a.t \in {"bool", "num", "str"} => a.v = b.v)

\* v.length
Length(v) ==
    IF v.t = "arr" THEN JNum(Len(v.v))
    ELSE IF v.t = "str" THEN JNum(Len(v.v))
    ELSE Prop(v, "length")

\* v[i], i counted from 0 as in the source
At(v, i) ==
    IF v.t = "arr" /\ i + 1 \in 1..Len(v.v) THEN v.v[i + 1] ELSE JUndef

\* `${v}` in a template string
TemplateString(v) ==
    IF v.t = "str" THEN v.v
    ELSE IF v.t = "undef" THEN "undefined"
    ELSE IF v.t = "null" THEN "null"
    ELSE IF v.t = "nan" THEN "NaN"
    ELSE IF v.t = "bool" THEN (IF v.v THEN "true" ELSE "false")
    ELSE IF v.t = "num" THEN ToString(v.v)
    ELSE "[object Object]"

\* The outcome of a validator: accepted, rejected with a message, or a
\* TypeError thrown by a property access on null / undefined.
Accept        == [valid |-> TRUE,  threw |-> FALSE, error |-> None]
Reject(msg)   == [valid |-> FALSE, threw |-> FALSE, error |-> msg]
Throw(msg)    == [valid |-> FALSE, threw |-> TRUE,  error |-> msg]
TypeErrorMsg  == "TypeError: cannot read properties of null or undefined"

\* ["click", "submit", "keypress"].includes(v)
IsInteractionType(v) == v.t = "str" /\ v.v \in {"click", "submit", "keypress"}

-----------------------------------------------------------------------------
(***************************************************************************)
(* ProofValidator, server side (validator.ts, unnamed/part_004).           *)
(***************************************************************************)
MAX_PROOF_AGE_MS == 5000
MIN_TRAJECTORY_POINTS == 3
MAX_VELOCITY == 10
ServerClockSkewMs == 5000
ServerMaxGapMs == 2000

\* The loop of validateTrajectoryTiming from index i on: "ok", "bad", or
\* "throw" when trajectory[i] or trajectory[i - 1] is null / undefined.
RECURSIVE ServerTimingFrom(_, _)
ServerTimingFrom(trajectory, i) ==
    IF ~Less(JNum(i), Length(trajectory)) THEN "ok"
    ELSE IF IsNullish(At(trajectory, i)) \/ IsNullish(At(trajectory, i - 1))
    THEN "throw"
    ELSE LET timeDiff == Minus(Prop(At(trajectory, i), "timestamp"),
                               Prop(At(trajectory, i - 1), "timestamp"))
         IN  IF Less(timeDiff, JNum(0)) THEN "bad"
             ELSE IF Greater(timeDiff, JNum(ServerMaxGapMs)) THEN "bad"
             ELSE ServerTimingFrom(trajectory, i + 1)

validateTrajectoryTimingServer(trajectory) ==
    IF Less(Length(trajectory), JNum(2)) THEN "ok"
    ELSE ServerTimingFrom(trajectory, 1)

\* validateInteractionProof(proof, action) evaluated when Date.now() = t
validateInteractionProof(proof, action, t) ==
    IF IsNullish(proof) THEN Throw(TypeErrorMsg)
    ELSE LET age == Minus(JNum(t), Prop(proof, "freshness")) IN
    IF Greater(age, JNum(MAX_PROOF_AGE_MS))
    THEN Reject("Interaction proof expired")
    ELSE IF Less(age, JNum(-ServerClockSkewMs))
    THEN Reject("Interaction proof from the future")
    ELSE IF IsNullish(action) THEN Throw(TypeErrorMsg)
    ELSE IF ~StrictEquals(Prop(proof, "actionContext"), Prop(action, "displayName"))
    THEN Reject("Action context mismatch: expected \""
                  \o TemplateString(Prop(action, "displayName")) \o "\", got \""
                  \o TemplateString(Prop(proof, "actionContext")) \o "\"")
    ELSE IF ~Truthy(Prop(proof, "trajectory"))
            \/ Less(Length(Prop(proof, "trajectory")), JNum(MIN_TRAJECTORY_POINTS))
    THEN Reject("Insufficient trajectory data")
    ELSE IF Greater(Prop(proof, "velocity"), JNum(MAX_VELOCITY))
    THEN Reject("Unrealistic mouse velocity detected")
    ELSE IF ~IsInteractionType(Prop(proof, "type"))
    THEN Reject("Invalid interaction type")
    ELSE LET timing == validateTrajectoryTimingServer(Prop(proof, "trajectory")) IN
    IF timing = "throw" THEN Throw(TypeErrorMsg)
    ELSE IF timing = "bad" THEN Reject("Invalid trajectory timing")
    ELSE Accept

(***************************************************************************)
(* ProofValidator, signing side (proof-validator.ts, unnamed/part_005).    *)
(***************************************************************************)
SignerMaxGapMs == 1000
SignerMinNonceLength == 16

RECURSIVE SignerTimingFrom(_, _)
SignerTimingFrom(trajectory, i) ==
    IF ~Less(JNum(i), Length(trajectory)) THEN "ok"
    ELSE IF IsNullish(At(trajectory, i)) \/ IsNullish(At(trajectory, i - 1))
    THEN "throw"
    ELSE LET timeDiff == Minus(Prop(At(trajectory, i), "timestamp"),
                               Prop(At(trajectory, i - 1), "timestamp"))
         IN  IF Less(timeDiff, JNum(0)) THEN "bad"
             ELSE IF Greater(timeDiff, JNum(SignerMaxGapMs)) THEN "bad"
             ELSE SignerTimingFrom(trajectory, i + 1)

validateTrajectoryTimingSigner(trajectory) ==
    IF Less(Length(trajectory), JNum(2)) THEN "ok"
    ELSE SignerTimingFrom(trajectory, 1)

\* validateProof(proof, action) evaluated when Date.now() = t
validateProof(proof, action, t) ==
    IF IsNullish(proof) THEN Throw(TypeErrorMsg)
    ELSE LET age == Minus(JNum(t), Prop(proof, "freshness")) IN
    IF Greater(age, JNum(MAX_PROOF_AGE_MS))
    THEN Reject("Interaction proof expired")
    ELSE IF Less(age, JNum(0))
    THEN Reject("Interaction proof from the future")
    ELSE IF IsNullish(action) THEN Throw(TypeErrorMsg)
    ELSE IF ~StrictEquals(Prop(proof, "actionContext"), Prop(action, "displayName"))
    THEN Reject("Action context mismatch: proof=\""
                  \o TemplateString(Prop(proof, "actionContext")) \o "\" action=\""
                  \o TemplateString(Prop(action, "displayName")) \o "\"")
    ELSE IF ~Truthy(Prop(proof, "trajectory"))
            \/ Less(Length(Prop(proof, "trajectory")), JNum(MIN_TRAJECTORY_POINTS))
    THEN Reject("Insufficient trajectory data")
    ELSE IF Greater(Prop(proof, "velocity"), JNum(MAX_VELOCITY))
    THEN Reject("Unrealistic mouse velocity detected")
    ELSE IF ~IsInteractionType(Prop(proof, "type"))
    THEN Reject("Invalid interaction type")
    ELSE IF IsNullish(Prop(proof, "position")) THEN Throw(TypeErrorMsg)
    ELSE IF Less(Prop(Prop(proof, "position"), "x"), JNum(0))
            \/ Less(Prop(Prop(proof, "position"), "y"), JNum(0))
    THEN Reject("Invalid position coordinates")
    ELSE LET timing == validateTrajectoryTimingSigner(Prop(proof, "trajectory")) IN
    IF timing = "throw" THEN Throw(TypeErrorMsg)
    ELSE IF timing = "bad" THEN Reject("Invalid trajectory timing")
    ELSE IF ~Truthy(Prop(proof, "nonce"))
            \/ Less(Length(Prop(proof, "nonce")), JNum(SignerMinNonceLength))
    THEN Reject("Missing or invalid nonce")
    ELSE Accept

-----------------------------------------------------------------------------
(***************************************************************************)
(* WebCrypto, as an ideal signature scheme.  Key pair k has private key    *)
(* Priv(k) and public key Pub(k); a signature records the private key      *)
(* that made it and the bytes it was made over, and verifies under a       *)
(* public key exactly when both match.                                     *)
(***************************************************************************)
Priv(k) == [kind |-> "private", id |-> k]
Pub(k)  == [kind |-> "public",  id |-> k]
KeyPair(k) == [privateKey |-> Priv(k), publicKey |-> Pub(k)]

\* exportPublicKey: the JWK of a public key; the server keeps
\* JSON.stringify(jwk) in the session.
exportPublicKey(publicKey) == [kty |-> "EC", crv |-> "P-256", id |-> publicKey.id]
JwkString(jwk) == "jwk:" \o ToString(jwk.id)

\* The key pairs that exist: those of the signing contexts, and key pair 3
\* of an attacker who signs outside any signing context.
KnownKeyIds == 1..3

\* TextEncoder.encode
Encode(message) == [utf8 |-> message]

\* crypto.subtle.sign
signData(privateKey, data) == [signedBy |-> privateKey.id, over |-> data]

\* arrayBufferToBase64 and atob-based base64ToArrayBuffer
arrayBufferToBase64(buffer) == [b64 |-> buffer]
IsBase64Signature(s) == "b64" \in DOMAIN s
base64ToArrayBuffer(base64) == base64.b64

\* JSON.parse + importPublicKey of the session's stored key: the key, or
\* Nil when parsing or the import throws.
importPublicKey(publicKeyJwk) ==
    IF \E k \in KnownKeyIds : publicKeyJwk = JwkString(exportPublicKey(Pub(k)))
    THEN Pub(CHOOSE k \in KnownKeyIds : publicKeyJwk = JwkString(exportPublicKey(Pub(k))))
    ELSE Nil

\* A verification that checks the signed bytes but not the signing key.
cryptoVerify_AnyKey(publicKey, signatureBytes, data) == signatureBytes.over = data

\* crypto.subtle.verify
cryptoVerify(publicKey, signatureBytes, data) ==
    /\ signatureBytes.signedBy = publicKey.id
    /\ signatureBytes.over = data

\* A signature check that accepts whatever it is given.
verifySignature_AcceptAll(publicKeyJwk, signatureBase64, action, proof, nonce) == TRUE

\* verifySignature (crypto.ts): every exception becomes false.
verifySignature(publicKeyJwk, signatureBase64, action, proof, nonce) ==
    /\ importPublicKey(publicKeyJwk) # Nil
    /\ IsBase64Signature(signatureBase64)
    /\ cryptoVerify(importPublicKey(publicKeyJwk),
                    base64ToArrayBuffer(signatureBase64),
                    Encode(createCanonicalMessage(action, proof, nonce)))

\* The signing half of handleSign: message, encode, sign, base64.
SignMessage(keyPair, action, proof, nonce) ==
    arrayBufferToBase64(
        signData(keyPair.privateKey,
                 Encode(createCanonicalMessageSigner(action, proof, nonce))))

-----------------------------------------------------------------------------
(***************************************************************************)
(* Values the harnesses and the client draw from.                          *)
(***************************************************************************)
MaxArrayLen == 2

\* The Action of api-client.ts performSecureAction, keys in source order.
MkAction(displayName, payload) ==
    JObj(<< KV("type", JStr("api_call")),
            KV("context", JStr("/api/protected/action")),
            KV("displayName", displayName),
            KV("payload", payload) >>)

\* A trajectory: points with the given timestamps.
MkTrajectory(stamps) ==
    JArr([i \in 1..Len(stamps) |->
             JObj(<< KV("x", JNum(10 * i)), KV("y", JNum(5 * i)),
                     KV("timestamp", JNum(stamps[i])) >>)])

\* The InteractionProof of InteractionTracker.getInteractionProof, keys in
\* source order.
MkProof(type, timestamp, freshness, context, position, trajectory, velocity, nonce) ==
    JObj(<< KV("type", type),
            KV("timestamp", timestamp),
            KV("freshness", freshness),
            KV("target", JStr("0a1b2c3d")),
            KV("actionContext", context),
            KV("actionHash", JStr("00c0ffee")),
            KV("position", position),
            KV("trajectory", trajectory),
            KV("velocity", velocity),
            KV("acceleration", JNum(0)),
            KV("nonce", nonce) >>)

MkPosition(x, y) == JObj(<< KV("x", JNum(x)), KV("y", JNum(y)) >>)

\* obj with its keys inserted in the reverse order
ReverseKeys(obj) ==
    JObj([i \in 1..Len(obj.v) |-> obj.v[Len(obj.v) + 1 - i]])

\* obj with property key set to val (added last when absent)
WithProp(obj, key, val) ==
    IF \E i \in 1..Len(obj.v) : obj.v[i].k = key
    THEN JObj([i \in 1..Len(obj.v) |->
                  IF obj.v[i].k = key THEN KV(key, val) ELSE obj.v[i]])
    ELSE JObj(Append(obj.v, KV(key, val)))

\* obj without property key
RECURSIVE WithoutPairs(_, _)
WithoutPairs(pairs, key) ==
    IF Len(pairs) = 0 THEN <<>>
    ELSE IF Head(pairs).k = key THEN WithoutPairs(Tail(pairs), key)
    ELSE <<Head(pairs)>> \o WithoutPairs(Tail(pairs), key)

WithoutProp(obj, key) == JObj(WithoutPairs(obj.v, key))

DisplayNames == {"Transfer Funds", "Delete Account"}

\* Date.now() when the model starts.
Now0 == 1000000

CodecProofBase(n) ==
    MkProof(JStr("click"), JNum(100000), JNum(100020), JStr("Transfer Funds"),
            MkPosition(40, 20), MkTrajectory(<<10, 26, 42>>), JNum(1), JStr(n))

-----------------------------------------------------------------------------
(***************************************************************************)
(* SpecCodec: draw (action, proof, nonce, key pair); sign on the signing   *)
(* side, rebuild and verify on the server side.                            *)
(***************************************************************************)
CodecInit ==
    LET leaves == {JNull, JUndef, JNaN, JBool(TRUE), JNum(250), JNum(-7), JStr("bob")}
        items == {JNull, JNum(250), JStr("bob")}
        objects ==
            {JObj(<<KV("amount", a)>>) : a \in leaves}
            \cup {JObj(<<KV("amount", a), KV("to", b)>>) :
                     a \in {JNum(250), JUndef}, b \in leaves}
            \cup {JObj(<<KV("to", b), KV("amount", a)>>) :
                     a \in {JNum(250), JUndef}, b \in leaves}
        payloads ==
            leaves
            \cup objects
            \cup {JArr(q) : q \in UNION {[1..m -> items] : m \in 0..MaxArrayLen}}
            \cup {JObj(<<KV("to", JStr("bob")), KV("action", o)>>) :
                     o \in {JObj(<<KV("y", JNum(1)), KV("x", JNum(2))>>),
                            JObj(<<KV("x", JNum(2)), KV("y", JNum(1))>>)}}
        actions ==
            {MkAction(JStr(d), pl) : d \in DisplayNames, pl \in payloads}
            \cup {ReverseKeys(MkAction(JStr("Transfer Funds"), pl)) : pl \in objects}
        base == CodecProofBase("nonce-0000000001")
        proofs ==
            {base,
             ReverseKeys(base),
             WithProp(base, "velocity", JNaN),
             WithProp(base, "actionContext", JStr("Delete Account")),
             WithoutProp(base, "position")}
    IN  /\ codecIn \in [action : actions, proof : proofs,
                        nonce : {"nonce-0000000001", "nonce-0000000002"},
                        key : 1..2]
        /\ codecOut = Nil

CodecRun ==
    /\ codecOut = Nil
    /\ LET signature == SignMessage(KeyPair(codecIn.key), codecIn.action,
                                    codecIn.proof, codecIn.nonce)
       IN  codecOut' =
             [ signerMessage |-> createCanonicalMessageSigner(
                                    codecIn.action, codecIn.proof, codecIn.nonce),
               serverMessage |-> createCanonicalMessage(
                                    codecIn.action, codecIn.proof, codecIn.nonce),
               stringifyMessage |-> createCanonicalMessageStringify(
                                    codecIn.action, codecIn.proof, codecIn.nonce),
               signature     |-> signature,
               verified      |-> verifySignature(
                                    JwkString(exportPublicKey(Pub(codecIn.key))),
                                    signature, codecIn.action, codecIn.proof,
                                    codecIn.nonce),
               verifiedOtherKey |-> verifySignature(
                                    JwkString(exportPublicKey(Pub(3 - codecIn.key))),
                                    signature, codecIn.action, codecIn.proof,
                                    codecIn.nonce) ]
    /\ UNCHANGED <<codecIn, serverVars, endpointVars, signerVars, proofVars, appVars>>

-----------------------------------------------------------------------------
(***************************************************************************)
(* SpecProof: draw a proof and an action, run both validators at the same  *)
(* instant.                                                                *)
(***************************************************************************)
ProofInit ==
    LET freshness ==
            {JNum(Now0 - 5001), JNum(Now0 - 5000), JNum(Now0 - 20),
             JNum(Now0), JNum(Now0 + 1), JNum(Now0 + 5000),
             JNum(Now0 + 5001), JUndef}
        trajectories ==
            {JArr(<<>>), MkTrajectory(<<10, 26>>), MkTrajectory(<<10, 26, 42>>),
             MkTrajectory(<<10, 26, 1026>>), MkTrajectory(<<10, 26, 1027>>),
             MkTrajectory(<<10, 26, 2026>>), MkTrajectory(<<10, 26, 2027>>),
             MkTrajectory(<<10, 26, 25>>), JUndef}
        velocities == {JNum(1), JNum(10), JNum(11)}
        types == {JStr("click"), JStr("keypress"), JStr("hover")}
        positions == {MkPosition(40, 20), MkPosition(-1, 20), MkPosition(0, 0)}
        nonces == {JStr("nonce-0000000001"), JStr("short"), JUndef}
        draws ==
            {MkProof(ty, JNum(Now0 - 40), f, JStr(c), pos, tr, vel, n) :
                ty \in types, f \in freshness, c \in DisplayNames,
                pos \in positions, tr \in trajectories,
                vel \in velocities, n \in nonces}
    IN  /\ proofIn \in [proof : draws,
                        action : {MkAction(JStr("Transfer Funds"), JNull)},
                        t : {Now0}]
        /\ proofOut = Nil

ProofRun ==
    /\ proofOut = Nil
    /\ proofOut' = [ signer |-> validateProof(proofIn.proof, proofIn.action, proofIn.t),
                     server |-> validateInteractionProof(proofIn.proof, proofIn.action,
                                                         proofIn.t) ]
    /\ UNCHANGED <<proofIn, serverVars, endpointVars, signerVars, codecVars, appVars>>

-----------------------------------------------------------------------------
(***************************************************************************)
(* The API server's store (api-server/src/store.ts).                       *)
(*                                                                         *)
(* inMemoryStore / inMemoryExpiry are the two Maps of the fallback.  With  *)
(* Redis connected the same pair stands for the Redis keyspace: a key      *)
(* exists in Redis exactly while its SETEX deadline lies in the future.    *)
(* Every store function is one atomic step: a single Redis command, or a   *)
(* function body without an await.                                         *)
(***************************************************************************)
SESSION_TTL == 86400
NONCE_TTL == 300

sessionKey(sessionId) == "session:" \o sessionId
nonceKey(nonce) == "nonce:" \o nonce

MapHas(m, k) == k \in DOMAIN m
MapSet(m, k, v) == [x \in DOMAIN m \cup {k} |-> IF x = k THEN v ELSE m[x]]
MapDelete(m, k) == [x \in DOMAIN m \ {k} |-> m[x]]

\* The stored text of a nonce ("1") and of a session (JSON.stringify(session),
\* which JSON.parse gives back field by field: strings and integers only).
NonceValue == [raw |-> "1"]
SessionValue(session) == [json |-> session]

\* A key Redis still holds: set and not yet past its deadline.
RedisHas(key) ==
    /\ MapHas(inMemoryStore, key)
    /\ MapHas(inMemoryExpiry, key)
    /\ inMemoryExpiry[key] > now

\* A test that still accepts a key at the instant of its deadline.
MemoryLive_AtDeadline(key) ==
    /\ MapHas(inMemoryExpiry, key)
    /\ inMemoryExpiry[key] >= now

\* The fallback's test: expiry && expiry > Date.now()
MemoryLive(key) ==
    /\ MapHas(inMemoryExpiry, key)
    /\ inMemoryExpiry[key] > now

\* storeSession / storeNonce: SETEX, or the two Map.set calls.
StoreAfterSet(key, value, ttl) ==
    [ store  |-> MapSet(inMemoryStore, key, value),
      expiry |-> MapSet(inMemoryExpiry, key, now + ttl * 1000) ]

storeSessionAfter(session) ==
    StoreAfterSet(sessionKey(session.sessionId), SessionValue(session), SESSION_TTL)

storeNonceAfter(nonce) == StoreAfterSet(nonceKey(nonce), NonceValue, NONCE_TTL)

\* getSession: the session, or Nil for null.
getSession(sessionId) ==
    LET key == sessionKey(sessionId)
        found == IF redis THEN RedisHas(key)
                 ELSE MemoryLive(key) /\ MapHas(inMemoryStore, key)
    IN  IF found /\ "json" \in DOMAIN inMemoryStore[key]
        THEN inMemoryStore[key].json
        ELSE Nil

\* A fallback that, finding the key expired, sweeps every key that has no
\* live deadline out of the store.
getSessionAfter_Sweep(sessionId) ==
    LET key == sessionKey(sessionId)
        live == {k \in DOMAIN inMemoryStore : MemoryLive(k)}
    IN  IF redis \/ MemoryLive(key)
        THEN [store |-> inMemoryStore, expiry |-> inMemoryExpiry]
        ELSE [store |-> [k \in live |-> inMemoryStore[k]],
              expiry |-> [k \in live |-> inMemoryExpiry[k]]]

\* getSession's effect on the store: the fallback drops a key it finds
\* expired or without a deadline; a Redis GET changes nothing.
getSessionAfter(sessionId) ==
    LET key == sessionKey(sessionId)
    IN  IF redis \/ MemoryLive(key)
        THEN [store |-> inMemoryStore, expiry |-> inMemoryExpiry]
        ELSE [store |-> MapDelete(inMemoryStore, key),
              expiry |-> MapDelete(inMemoryExpiry, key)]

\* deleteSession: DEL, or the two Map.delete calls.
deleteSessionAfter(sessionId) ==
    [ store  |-> MapDelete(inMemoryStore, sessionKey(sessionId)),
      expiry |-> MapDelete(inMemoryExpiry, sessionKey(sessionId)) ]

\* validateAndConsumeNonce: the boolean it returns.
validateAndConsumeNonce(nonce) ==
    LET key == nonceKey(nonce)
    IN  IF redis
        THEN RedisHas(key) /\ inMemoryStore[key] = NonceValue
        ELSE /\ MemoryLive(key)
             /\ MapHas(inMemoryStore, key)
             /\ inMemoryStore[key] = NonceValue

\* A GET in place of the GETDEL, or a forgotten delete: the store is left
\* as it was.
validateAndConsumeNonceAfter_NoDelete(nonce) ==
    [store |-> inMemoryStore, expiry |-> inMemoryExpiry]

\* A nonce step that lets every request through.
NonceStep_AlwaysPass(q) == [q EXCEPT !.trace = Append(@, "consumeNonce"), !.pc = "body"]

\* validateAndConsumeNonce: the store it leaves.  GETDEL removes a key it
\* finds, whatever its value; the fallback removes it only when it
\* returns true.
validateAndConsumeNonceAfter(nonce) ==
    LET key == nonceKey(nonce)
        hit == IF redis THEN RedisHas(key) ELSE validateAndConsumeNonce(nonce)
    IN  IF hit
        THEN [store |-> MapDelete(inMemoryStore, key),
              expiry |-> MapDelete(inMemoryExpiry, key)]
        ELSE [store |-> inMemoryStore, expiry |-> inMemoryExpiry]

\* generateNonce / generateSessionId: 32 resp. 16 bytes from
\* crypto.getRandomValues, modelled as a value never produced before.
MaxNonces == 1
MaxSessions == 1
NonceName(i) == "nonce-000000000" \o ToString(i)
SessionName(i) == "sid-" \o ToString(i)
NoncePool == {NonceName(i) : i \in 1..MaxNonces}
SessionPool == {SessionName(i) : i \in 1..MaxSessions}

-----------------------------------------------------------------------------
(***************************************************************************)
(* The client side of a protected request (api-client.ts in server.ts,     *)
(* lines 595-735) and what an attacker holding captured requests can send. *)
(***************************************************************************)
MaxSigned == 1
MaxRequests == 2
MaxTampered == 1
MaxTicks == 1

\* JSON.parse(JSON.stringify(v)) for a value that is not undefined:
\* properties holding undefined are dropped, undefined and NaN inside an
\* array and NaN anywhere become null.
RECURSIVE JsonRoundTrip(_)
RECURSIVE RoundTripPairs(_)
RoundTripPairs(pairs) ==
    IF Len(pairs) = 0 THEN <<>>
    ELSE IF Head(pairs).val.t = "undef" THEN RoundTripPairs(Tail(pairs))
    ELSE <<KV(Head(pairs).k, JsonRoundTrip(Head(pairs).val))>>
             \o RoundTripPairs(Tail(pairs))

JsonRoundTrip(v) ==
    IF v.t \in {"undef", "nan"} THEN JNull
    ELSE IF v.t = "arr" THEN JArr([i \in 1..Len(v.v) |-> JsonRoundTrip(v.v[i])])
    ELSE IF v.t = "obj" THEN JObj(RoundTripPairs(v.v))
    ELSE v

\* Request parts.  A header is Nil when absent.
NoBody        == [unreadable |-> TRUE]
JsonBody(v)   == [json |-> v]
ProofHeader(v) == [json |-> v]
Garbage == [garbage |-> TRUE]

\* fetch's body: body ? JSON.stringify(body) : undefined
ClientBody(payload) ==
    IF Truthy(payload) THEN JsonBody(JsonRoundTrip(payload)) ELSE NoBody

PayloadFor(displayName) ==
    IF displayName = "Transfer Funds"
    THEN JObj(<<KV("action", JStr("transfer")), KV("amount", JNum(250))>>)
    ELSE JObj(<<KV("action", JStr("delete_account"))>>)

OtherDisplayName(d) == CHOOSE o \in DisplayNames : o # d

\* The proof InteractionTracker.getInteractionProof builds at time t for a
\* click on an element labelled context.
ClickProof(context, nonce, t) ==
    MkProof(JStr("click"), JNum(t), JNum(t), JStr(context), MkPosition(40, 20),
            MkTrajectory(<<10, 26, 42>>), JNum(1), JStr(nonce))

\* APIClient.request after fetchNonce and getInteractionProof: the request
\* it sends when the signer answers with a signature.
SignedRequest(sessionId, keyId, displayName, context, nonce, t) ==
    LET action == MkAction(JStr(displayName), PayloadFor(displayName))
        proof  == ClickProof(context, nonce, t)
    IN  [ sessionId |-> sessionId,
          signature |-> SignMessage(KeyPair(keyId), action, proof, nonce),
          proofJson |-> ProofHeader(JsonRoundTrip(proof)),
          body      |-> ClientBody(PayloadFor(displayName)),
          signedAction |-> action,
          signedProof  |-> proof ]

Tampers ==
    { "none", "noSession", "noSignature", "noProof", "badProofJson",
      "nullProof", "noNonce", "swapNonce", "swapContext", "swapBody",
      "badBody", "otherSession", "garbageSig", "forgedSig", "nullPoint",
      "ungatedSig" }

\* A JSON value that differs from v: a number one higher, a longer string,
\* the other boolean, an array or object whose first member is altered.
RECURSIVE Altered(_)
Altered(v) ==
    IF v.t = "num" THEN JNum(v.v + 1)
    ELSE IF v.t = "str" THEN JStr(v.v \o "x")
    ELSE IF v.t = "bool" THEN JBool(~v.v)
    ELSE IF v.t = "arr" /\ Len(v.v) > 0
    THEN JArr([i \in 1..Len(v.v) |-> IF i = 1 THEN Altered(v.v[i]) ELSE v.v[i]])
    ELSE IF v.t = "obj" /\ Len(v.v) > 0
    THEN JObj([i \in 1..Len(v.v) |->
                  IF i = 1 THEN KV(v.v[i].k, Altered(v.v[i].val)) ELSE v.v[i]])
    ELSE JNum(1)

\* The alterations of one field: of the proof (all but its nonce, which
\* swapNonce replaces) and of the request body.
ProofFields ==
    { "type", "timestamp", "freshness", "target", "actionContext", "actionHash",
      "position", "trajectory", "velocity", "acceleration" }
BodyFields == {"action", "amount"}
ProofFieldTamper(key) == "proof." \o key
BodyFieldTamper(key) == "body." \o key
FieldTampers ==
    {ProofFieldTamper(key) : key \in ProofFields} \cup {BodyFieldTamper(key) : key \in BodyFields}

\* What is sent when a captured request b is altered.  ungatedSig is a
\* request signed with the session's key by a signer that skipped
\* validateProof: its signature is over an action whose displayName is not
\* the proof's actionContext.
Tampered(b, tamper, otherNonce, otherSession) ==
    LET proof == b.proofJson.json
        c == b
    IN  IF tamper = "noSession" THEN [c EXCEPT !.sessionId = None]
        ELSE IF tamper = "noSignature" THEN [c EXCEPT !.signature = Nil]
        ELSE IF tamper = "noProof" THEN [c EXCEPT !.proofJson = Nil]
        ELSE IF tamper = "badProofJson" THEN [c EXCEPT !.proofJson = Garbage]
        ELSE IF tamper = "nullProof" THEN [c EXCEPT !.proofJson = ProofHeader(JNull)]
        ELSE IF tamper = "noNonce"
        THEN [c EXCEPT !.proofJson = ProofHeader(WithoutProp(proof, "nonce"))]
        ELSE IF tamper = "swapNonce"
        THEN [c EXCEPT !.proofJson = ProofHeader(WithProp(proof, "nonce", JStr(otherNonce)))]
        ELSE IF tamper = "swapContext"
        THEN [c EXCEPT !.proofJson = ProofHeader(WithProp(proof, "actionContext",
                   JStr(OtherDisplayName(Prop(proof, "actionContext").v))))]
        ELSE IF tamper = "swapBody"
        THEN [c EXCEPT !.body = ClientBody(PayloadFor(
                   OtherDisplayName(Prop(b.signedAction, "displayName").v)))]
        ELSE IF tamper = "badBody" THEN [c EXCEPT !.body = NoBody]
        ELSE IF tamper = "otherSession" THEN [c EXCEPT !.sessionId = otherSession]
        ELSE IF tamper = "garbageSig" THEN [c EXCEPT !.signature = Garbage]
        ELSE IF tamper = "forgedSig"
        THEN [c EXCEPT !.signature = SignMessage(KeyPair(3), b.signedAction,
                                                 b.signedProof, Prop(proof, "nonce").v)]
        ELSE IF tamper = "ungatedSig"
        THEN LET action == WithProp(b.signedAction, "displayName",
                     JStr(OtherDisplayName(Prop(b.signedAction, "displayName").v)))
             IN  [c EXCEPT !.signedAction = action,
                           !.signature = SignMessage(KeyPair(b.signature.b64.signedBy), action,
                                             b.signedProof, Prop(proof, "nonce").v)]
        ELSE IF tamper = "nullPoint"
        THEN [c EXCEPT !.proofJson = ProofHeader(WithProp(proof, "trajectory",
                   JArr(<<JNull, JNull, JNull>>)))]
        ELSE IF \E key \in ProofFields : tamper = ProofFieldTamper(key)
        THEN LET key == CHOOSE key \in ProofFields : tamper = ProofFieldTamper(key)
             IN  [c EXCEPT !.proofJson = ProofHeader(WithProp(proof, key, Altered(Prop(proof, key))))]
        ELSE IF \E key \in BodyFields : tamper = BodyFieldTamper(key)
        THEN LET key == CHOOSE key \in BodyFields : tamper = BodyFieldTamper(key)
             IN  IF "json" \in DOMAIN b.body /\ Prop(b.body.json, key) # JUndef
                 THEN [c EXCEPT !.body = JsonBody(WithProp(b.body.json, key,
                                              Altered(Prop(b.body.json, key))))]
                 ELSE c
        ELSE c

-----------------------------------------------------------------------------
(***************************************************************************)
(* verifyRequest (api-server/src/server.ts), one action per stretch of     *)
(* code between two awaits.  A request record keeps the locals of its      *)
(* invocation, and in trace the steps of the chain it has passed.          *)
(***************************************************************************)
Chain ==
    << "headers", "getSession", "parseProof", "consumeNonce",
       "rebuildAction", "validateInteractionProof", "verifySignature" >>

NewRequest(content) ==
    [ sessionId |-> content.sessionId,
      signature |-> content.signature,
      proofJson |-> content.proofJson,
      body      |-> content.body,
      signedAction |-> content.signedAction,
      signedProof  |-> content.signedProof,
      pc        |-> "headers",
      session   |-> Nil,
      proof     |-> Nil,
      nonce     |-> None,
      nonceValid |-> FALSE,
      afterTrue |-> FALSE,
      afterAuthorized |-> FALSE,
      afterSpent |-> FALSE,
      action    |-> Nil,
      touched   |-> Nil,
      trace     |-> <<>>,
      result    |-> "pending",
      error     |-> None ]

\* return { valid: false, error }
Rejected(q, failedStep, msg) ==
    [q EXCEPT !.pc = "done", !.result = "invalid", !.error = msg,
              !.trace = Append(@, failedStep)]

\* an exception leaves verifyRequest: handleRequest answers 500
Thrown(q, failedStep, msg) ==
    [q EXCEPT !.pc = "done", !.result = "threw", !.error = msg,
              !.trace = Append(@, failedStep)]

Passed(q, step) == [q EXCEPT !.trace = Append(@, step)]

\* JSON.parse(proofJson): the value, or "throws"
ProofParses(q) == "json" \in DOMAIN q.proofJson

\* The action verifyRequest rebuilds from the request.
RebuildAction(proof, body) ==
    JObj(<< KV("type", JStr("api_call")),
            KV("context", JStr("/api/protected/action")),
            KV("displayName", Prop(proof, "actionContext")),
            KV("payload", body) >>)

\* Lines 154-170: the three header checks, then the call of getSession.
HeadersStep(q) ==
    IF q.sessionId = None
    THEN Rejected(q, "headers", "Missing X-Session-ID header")
    ELSE IF q.signature = Nil
    THEN Rejected(q, "headers", "Missing X-Signature header")
    ELSE IF q.proofJson = Nil
    THEN Rejected(q, "headers", "Missing X-Interaction-Proof header")
    ELSE [Passed(q, "headers") EXCEPT !.pc = "getSession"]

\* Lines 170-188: getSession has answered; parse the proof, test the
\* nonce's presence, call validateAndConsumeNonce.
SessionStep(q, session) ==
    IF session = Nil
    THEN Rejected(q, "getSession", "Invalid or expired session")
    ELSE LET q1 == [Passed(q, "getSession") EXCEPT !.session = session] IN
    IF ~ProofParses(q1)
    THEN Rejected(q1, "parseProof", "Invalid interaction proof format")
    ELSE LET proof == q1.proofJson.json
             q2 == [Passed(q1, "parseProof") EXCEPT !.proof = proof] IN
    IF IsNullish(proof)
    THEN Thrown(q2, "consumeNonce", TypeErrorMsg)
    ELSE IF ~Truthy(Prop(proof, "nonce"))
    THEN Rejected(q2, "consumeNonce", "Missing nonce in proof")
    ELSE [q2 EXCEPT !.pc = "nonceCall",
                    !.nonce = TemplateString(Prop(proof, "nonce")),
                    !.afterTrue = TemplateString(Prop(proof, "nonce")) \in returnedTrue]

\* A verifyRequest that also wants the nonce to have been handed out to
\* the request's own session.
NonceStep_OwnNonce(q) ==
    IF ~q.nonceValid
           \/ ~\E g \in 1..Len(nonceReqs) :
                  nonceReqs[g].nonce = q.nonce /\ nonceReqs[g].sessionId = q.sessionId
    THEN Rejected(q, "consumeNonce", "Invalid or reused nonce")
    ELSE [Passed(q, "consumeNonce") EXCEPT !.pc = "body"]

\* Lines 188-197: validateAndConsumeNonce has answered.
NonceStep(q) ==
    IF ~q.nonceValid
    THEN Rejected(q, "consumeNonce", "Invalid or reused nonce")
    ELSE [Passed(q, "consumeNonce") EXCEPT !.pc = "body"]

\* Lines 197-222: the body has been read (or not); rebuild the action, run
\* validateInteractionProof at time t, call verifySignature.
BodyStep(q, t) ==
    IF "json" \notin DOMAIN q.body
    THEN Rejected(q, "rebuildAction", "Invalid request body")
    ELSE LET action == RebuildAction(q.proof, q.body.json)
             q1 == [Passed(q, "rebuildAction") EXCEPT !.action = action]
             v == validateInteractionProof(q.proof, action, t) IN
    IF v.threw THEN Thrown(q1, "validateInteractionProof", v.error)
    ELSE IF ~v.valid THEN Rejected(q1, "validateInteractionProof", v.error)
    ELSE [Passed(q1, "validateInteractionProof") EXCEPT !.pc = "verifySig"]

\* A verifyRequest that goes on whatever verifySignature answered.
SignatureStep_Skip(q) == [Passed(q, "verifySignature") EXCEPT !.pc = "touchGet"]

\* Lines 216-229: verifySignature has answered; call touchSession.
SignatureStep(q) ==
    IF ~verifySignature(q.session.publicKey, q.signature, q.action, q.proof, q.nonce)
    THEN Rejected(q, "verifySignature", "Signature verification failed")
    ELSE [Passed(q, "verifySignature") EXCEPT !.pc = "touchGet"]

\* return { valid: true, session }
Authorized(q) == [q EXCEPT !.pc = "done", !.result = "valid"]

-----------------------------------------------------------------------------
(***************************************************************************)
(* Spec: the API server.  Logins, logouts, nonce requests, the client's    *)
(* signing, and up to MaxRequests protected requests whose verifyRequest   *)
(* invocations interleave at their awaits.                                 *)
(***************************************************************************)

ServerInit ==
    /\ redis \in BOOLEAN
    /\ inMemoryStore = <<>>
    /\ inMemoryExpiry = <<>>
    /\ now = Now0
    /\ ticks = 0
    /\ reqs = <<>>
    /\ generated = {}
    /\ signedReqs = {}
    /\ returnedTrue = {}
    /\ deleted = {}
    /\ nonceReqs = <<>>
    /\ infoReqs = <<>>

\* The part of a request record that was sent.
Content(q) ==
    [ sessionId |-> q.sessionId, signature |-> q.signature,
      proofJson |-> q.proofJson, body |-> q.body,
      signedAction |-> q.signedAction, signedProof |-> q.signedProof ]

\* Requests submitted so far that differ from what the client built.
TamperedCount ==
    Cardinality({r \in 1..Len(reqs) : Content(reqs[r]) \notin signedReqs})

ServerOnly == UNCHANGED <<endpointVars, signerVars, codecVars, proofVars, appVars>>

SetStore(after) ==
    /\ inMemoryStore' = after.store
    /\ inMemoryExpiry' = after.expiry

\* Date.now() advances by one of the given numbers of milliseconds.
TickBy(steps) ==
    /\ ticks < MaxTicks
    /\ \E d \in steps : now' = now + d
    /\ ticks' = ticks + 1
    /\ UNCHANGED <<redis, inMemoryStore, inMemoryExpiry, reqs, generated,
                   signedReqs, returnedTrue, deleted>>
    /\ ServerOnly

Tick == TickBy({5001, 300000})

\* POST /api/auth/login with the public key of signing context i: the i-th
\* login registers key pair i under a new session id.
LoginUpTo(count) ==
    /\ \E i \in 1..count :
          /\ SessionName(i) \notin generated
          /\ \A j \in 1..(i - 1) : SessionName(j) \in generated
          /\ generated' = generated \cup {SessionName(i)}
          /\ SetStore(storeSessionAfter(
                 [ sessionId |-> SessionName(i),
                   userId    |-> "user-" \o ToString(i),
                   publicKey |-> JwkString(exportPublicKey(Pub(i))),
                   createdAt |-> now,
                   lastAccess |-> now,
                   ipAddress |-> "unknown",
                   userAgent |-> "unknown",
                   expiresAt |-> now + SESSION_TTL * 1000 ]))
    /\ UNCHANGED <<redis, now, ticks, reqs, signedReqs, returnedTrue, deleted>>
    /\ ServerOnly

Login == LoginUpTo(MaxSessions)

\* POST /api/auth/logout with X-Session-ID
Logout ==
    /\ \E sid \in generated \cap SessionPool :
          /\ SetStore(deleteSessionAfter(sid))
          /\ deleted' = deleted \cup {sid}
    /\ UNCHANGED <<redis, now, ticks, reqs, generated, signedReqs, returnedTrue>>
    /\ ServerOnly

\* GET /api/nonce with X-Session-ID: 401 without a session, else a fresh
\* nonce is stored and returned.
IssueNonceUpTo(count) ==
    /\ \E sid \in generated \cap SessionPool :
          IF getSession(sid) = Nil
          THEN /\ SetStore(getSessionAfter(sid))
               /\ UNCHANGED generated
          ELSE \E i \in 1..count :
                  /\ NonceName(i) \notin generated
                  /\ \A j \in 1..(i - 1) : NonceName(j) \in generated
                  /\ generated' = generated \cup {NonceName(i)}
                  /\ SetStore(storeNonceAfter(NonceName(i)))
    /\ UNCHANGED <<redis, now, ticks, reqs, signedReqs, returnedTrue, deleted>>
    /\ ServerOnly

IssueNonce == IssueNonceUpTo(MaxNonces)

\* The client of session i, holding the first nonce issued, asks its signing context
\* (key pair i) to sign the action named displayName with the proof of a
\* click on the element labelled context; handleSign signs when
\* validateProof accepts.
ClientSignUpTo(count) ==
    /\ Cardinality(signedReqs) < MaxSigned
    /\ \E i \in 1..count, n \in generated \cap NoncePool,
          displayName \in DisplayNames, context \in DisplayNames :
          /\ SessionName(i) \in generated
          /\ n = NonceName(1)
          /\ validateProof(ClickProof(context, n, now),
                           MkAction(JStr(displayName), PayloadFor(displayName)),
                           now).valid
          /\ signedReqs' = signedReqs \cup
                {SignedRequest(SessionName(i), i, displayName, context, n, now)}
    /\ UNCHANGED <<redis, inMemoryStore, inMemoryExpiry, now, ticks, reqs,
                   generated, returnedTrue, deleted>>
    /\ ServerOnly

ClientSign == ClientSignUpTo(MaxSessions)

\* A protected request arrives, a signed request as the client built it or
\* altered, and verifyRequest runs up to its first await.
\* History: the X-Interaction-Proof header of the request carries a nonce
\* for which a validateAndConsumeNonce call has already returned true.
PresentsSpentNonce(content) ==
    /\ ProofParses(content)
    /\ ~IsNullish(content.proofJson.json)
    /\ Truthy(Prop(content.proofJson.json, "nonce"))
    /\ TemplateString(Prop(content.proofJson.json, "nonce")) \in returnedTrue

SubmitFrom(tampers, nonces) ==
    /\ Len(reqs) < MaxRequests
    /\ \E b \in signedReqs, tamper \in tampers, n \in nonces,
          sid \in SessionPool \cup {SessionName(0)} :
          /\ Tampered(b, tamper, n, sid) # b => TamperedCount < MaxTampered
          /\ reqs' = Append(reqs,
                 [HeadersStep(NewRequest(Tampered(b, tamper, n, sid))) EXCEPT
                     !.afterAuthorized =
                         \E r \in 1..Len(reqs) :
                             /\ reqs[r].result = "valid"
                             /\ Content(reqs[r]) = Tampered(b, tamper, n, sid),
                     !.afterSpent = PresentsSpentNonce(Tampered(b, tamper, n, sid))])
    /\ UNCHANGED <<redis, inMemoryStore, inMemoryExpiry, now, ticks,
                   generated, signedReqs, returnedTrue, deleted>>
    /\ ServerOnly

SubmitWith(tampers) == SubmitFrom(tampers, NoncePool \cup {NonceName(0)})

Submit == SubmitWith(Tampers)

SetReq(r, q) == reqs' = [reqs EXCEPT ![r] = q]

VerifyGetSession ==
    /\ \E r \in 1..Len(reqs) :
          /\ reqs[r].pc = "getSession"
          /\ SetReq(r, SessionStep(reqs[r], getSession(reqs[r].sessionId)))
          /\ SetStore(getSessionAfter(reqs[r].sessionId))
    /\ UNCHANGED <<redis, now, ticks, generated, signedReqs, returnedTrue, deleted>>
    /\ ServerOnly

\* validateAndConsumeNonce runs (one GETDEL, or the fallback's body) and
\* its answer reaches verifyRequest, which goes on to read the body.
VerifyConsumeNonce ==
    /\ \E r \in 1..Len(reqs) :
          /\ reqs[r].pc = "nonceCall"
          /\ SetReq(r, NonceStep([reqs[r] EXCEPT
                           !.nonceValid = validateAndConsumeNonce(reqs[r].nonce)]))
          /\ SetStore(validateAndConsumeNonceAfter(reqs[r].nonce))
          /\ returnedTrue' = IF validateAndConsumeNonce(reqs[r].nonce)
                             THEN returnedTrue \cup {reqs[r].nonce}
                             ELSE returnedTrue
    /\ UNCHANGED <<redis, now, ticks, generated, signedReqs, deleted>>
    /\ ServerOnly

\* The body is read; validateInteractionProof and verifySignature run.
VerifyBody ==
    /\ \E r \in 1..Len(reqs) :
          /\ reqs[r].pc = "body"
          /\ SetReq(r, LET q == BodyStep(reqs[r], now)
                       IN  IF q.pc = "verifySig" THEN SignatureStep(q) ELSE q)
    /\ UNCHANGED <<redis, inMemoryStore, inMemoryExpiry, now, ticks,
                   generated, signedReqs, returnedTrue, deleted>>
    /\ ServerOnly

\* A touch that also renews the session's own deadline.
setLastAccess_Renew(session, t) == [session EXCEPT !.lastAccess = t, !.expiresAt = t + SESSION_TTL * 1000]

\* session.lastAccess = Date.now() (store.ts 113)
setLastAccess(session, t) == [session EXCEPT !.lastAccess = t]

\* touchSession, first half: getSession answers; with a session, set
\* lastAccess and call storeSession.
TouchGet ==
    /\ \E r \in 1..Len(reqs) :
          /\ reqs[r].pc = "touchGet"
          /\ LET session == getSession(reqs[r].sessionId)
             IN  SetReq(r, IF session = Nil
                           THEN Authorized(reqs[r])
                           ELSE [reqs[r] EXCEPT
                                    !.pc = "touchStore",
                                    !.touched = setLastAccess(session, now)])
          /\ SetStore(getSessionAfter(reqs[r].sessionId))
    /\ UNCHANGED <<redis, now, ticks, generated, signedReqs, returnedTrue, deleted>>
    /\ ServerOnly

\* touchSession, second half: storeSession writes; verifyRequest returns
\* valid.
TouchStore ==
    /\ \E r \in 1..Len(reqs) :
          /\ reqs[r].pc = "touchStore"
          /\ SetReq(r, Authorized(reqs[r]))
          /\ SetStore(storeSessionAfter(reqs[r].touched))
    /\ UNCHANGED <<redis, now, ticks, generated, signedReqs, returnedTrue, deleted>>
    /\ ServerOnly

Next ==
    \/ Tick
    \/ Login
    \/ Logout
    \/ IssueNonce
    \/ ClientSign
    \/ Submit
    \/ VerifyGetSession
    \/ VerifyConsumeNonce
    \/ VerifyBody
    \/ TouchGet
    \/ TouchStore

-----------------------------------------------------------------------------
(***************************************************************************)
(* SpecStore: the server's store under the passage of time.  GET           *)
(* /api/nonce runs as a handler of its own, one action per stretch between *)
(* two awaits (server.ts 409-451); protected requests arrive as the client *)
(* built them or with another nonce; the clock advances across the nonce   *)
(* TTL and the session TTL.                                                *)
(***************************************************************************)
MaxNonceRequests == 1
MaxElapses == 2

\* found, storedAt and changedNonces are history: getSession returned a
\* session to this invocation; Date.now() when its storeNonce ran; a step
\* of this invocation changed the nonce entries of the store.
NewNonceRequest(sessionId) ==
    [ sessionId |-> sessionId, pc |-> "start", found |-> FALSE,
      status |-> 0, error |-> None, nonce |-> None, storedAt |-> 0,
      changedNonces |-> FALSE ]

\* errorResponse(error, status, origin)
errorResponse(q, error, status) ==
    [q EXCEPT !.pc = "done", !.status = status, !.error = error]

\* Lines 412-417: the header test, then the call of getSession.  A header
\* that is absent (null) or empty is falsy.
NonceHeaderStep(q) ==
    IF q.sessionId \in {None, ""}
    THEN errorResponse(q, "Session ID required", 401)
    ELSE [q EXCEPT !.pc = "getSession"]

\* A handler that goes on whatever getSession answered.
NonceSessionStep_NoCheck(q, session) == [q EXCEPT !.pc = "rateLimit"]

\* Lines 417-427: getSession has answered; call checkRateLimit.
NonceSessionStep(q, session) ==
    IF session = Nil
    THEN errorResponse(q, "Invalid or expired session", 401)
    ELSE [q EXCEPT !.pc = "rateLimit"]

\* Lines 428-438: checkRateLimit has answered; call incrementRateLimit.
NonceRateStep(q, isRateLimited) ==
    IF isRateLimited
    THEN errorResponse(q, "Too many nonce requests. Please slow down.", 429)
    ELSE [q EXCEPT !.pc = "store"]

\* Lines 440-450: the nonce is generated, stored and returned.
NonceStoredStep(q, nonce, t) ==
    [q EXCEPT !.pc = "done", !.status = 200, !.nonce = nonce, !.storedAt = t]

\* The nonce entries of a store: its keys nonce:<n> with their values.
NonceEntries(store) ==
    LET keys == {k \in DOMAIN store :
                    \E n \in NoncePool \cup {NonceName(0)} : k = nonceKey(n)}
    IN  [k \in keys |-> store[k]]

SetNonceReq(r, q) == nonceReqs' = [nonceReqs EXCEPT ![r] = q]

EndpointOnly == UNCHANGED <<signerVars, codecVars, proofVars, appVars>>

\* GET /api/nonce arrives: no X-Session-ID, an empty one, an id the server
\* never created, or one it did create.
NonceArriveFrom(sessionIds) ==
    /\ Len(nonceReqs) < MaxNonceRequests
    /\ \E sessionId \in sessionIds :
          nonceReqs' = Append(nonceReqs, NonceHeaderStep(NewNonceRequest(sessionId)))
    /\ UNCHANGED <<serverVars, infoReqs>>
    /\ EndpointOnly

NonceArrive == NonceArriveFrom({None, "", SessionName(0)} \cup SessionPool)

NonceGetSession ==
    /\ \E r \in 1..Len(nonceReqs) :
          /\ nonceReqs[r].pc = "getSession"
          /\ LET sessionId == nonceReqs[r].sessionId
                 after == getSessionAfter(sessionId)
             IN  /\ SetNonceReq(r, [NonceSessionStep(nonceReqs[r], getSession(sessionId))
                        EXCEPT !.found = getSession(sessionId) # Nil,
                               !.changedNonces =
                                   \/ NonceEntries(after.store) # NonceEntries(inMemoryStore)
                                   \/ NonceEntries(after.expiry) # NonceEntries(inMemoryExpiry)])
                 /\ SetStore(after)
    /\ UNCHANGED <<redis, now, ticks, reqs, generated, signedReqs, returnedTrue, deleted, infoReqs>>
    /\ EndpointOnly

\* checkRateLimit and incrementRateLimit: the limiter's answer is an input.
NonceRateLimit ==
    /\ \E r \in 1..Len(nonceReqs), isRateLimited \in BOOLEAN :
          /\ nonceReqs[r].pc = "rateLimit"
          /\ SetNonceReq(r, NonceRateStep(nonceReqs[r], isRateLimited))
    /\ UNCHANGED <<serverVars, infoReqs>>
    /\ EndpointOnly

NonceStore ==
    /\ \E r \in 1..Len(nonceReqs), i \in 1..MaxNonces :
          /\ nonceReqs[r].pc = "store"
          /\ NonceName(i) \notin generated
          /\ \A j \in 1..(i - 1) : NonceName(j) \in generated
          /\ generated' = generated \cup {NonceName(i)}
          /\ SetStore(storeNonceAfter(NonceName(i)))
          /\ SetNonceReq(r, [NonceStoredStep(nonceReqs[r], NonceName(i), now)
                                EXCEPT !.changedNonces = TRUE])
    /\ UNCHANGED <<redis, now, ticks, reqs, signedReqs, returnedTrue, deleted, infoReqs>>
    /\ EndpointOnly

\* Date.now() advances by a millisecond, to the last millisecond of a
\* nonce's life, or to the last millisecond of a session's.
Elapse ==
    /\ ticks < MaxElapses
    /\ \E d \in {1, NONCE_TTL * 1000 - 1, SESSION_TTL * 1000 - 1} : now' = now + d
    /\ ticks' = ticks + 1
    /\ UNCHANGED <<redis, inMemoryStore, inMemoryExpiry, reqs, generated,
                   signedReqs, returnedTrue, deleted>>
    /\ ServerOnly

\* A protected request arrives as the client built it, or carrying another
\* nonce.
SubmitSigned == SubmitWith({"none", "swapNonce"})

StoreNext ==
    \/ Elapse
    \/ Login
    \/ Logout
    \/ NonceArrive
    \/ NonceGetSession
    \/ NonceRateLimit
    \/ NonceStore
    \/ ClientSign
    \/ SubmitSigned
    \/ VerifyGetSession
    \/ VerifyConsumeNonce
    \/ VerifyBody
    \/ TouchGet
    \/ TouchStore

-----------------------------------------------------------------------------
(***************************************************************************)
(* SpecFrame: protected requests that verifyRequest turns away before it   *)
(* calls validateAndConsumeNonce (server.ts 154-186): a header is missing, *)
(* the session is unknown, logged out or past its TTL, the proof is not    *)
(* JSON or carries no nonce.                                               *)
(***************************************************************************)
SessionExpires == TickBy({5001, SESSION_TTL * 1000})

SubmitUnfit ==
    SubmitWith({"none", "noSession", "noSignature", "noProof", "badProofJson",
                "noNonce", "otherSession"})

FrameNext ==
    \/ SessionExpires
    \/ Login
    \/ Logout
    \/ IssueNonce
    \/ ClientSign
    \/ SubmitUnfit
    \/ VerifyGetSession
    \/ VerifyConsumeNonce
    \/ VerifyBody
    \/ TouchGet
    \/ TouchStore

-----------------------------------------------------------------------------
(***************************************************************************)
(* SpecShared: two sessions on one server.  Either session asks GET        *)
(* /api/nonce for the nonce; the client of either session signs a request  *)
(* carrying it and sends it as built.                                      *)
(***************************************************************************)
TwoSessions == {SessionName(i) : i \in 1..(MaxSessions + 1)}

LoginEither == LoginUpTo(MaxSessions + 1)

NonceArriveEither == NonceArriveFrom(TwoSessions)

ClientSignEither == ClientSignUpTo(MaxSessions + 1)

SubmitBuilt == SubmitWith({"none"})

SharedNext ==
    \/ Tick
    \/ LoginEither
    \/ NonceArriveEither
    \/ NonceGetSession
    \/ NonceRateLimit
    \/ NonceStore
    \/ ClientSignEither
    \/ SubmitBuilt
    \/ VerifyGetSession
    \/ VerifyConsumeNonce
    \/ VerifyBody
    \/ TouchGet
    \/ TouchStore

-----------------------------------------------------------------------------
(***************************************************************************)
(* SpecReplay: a request the client built is sent as it is and once more   *)
(* with one field of its proof or body altered, or with its nonce replaced *)
(* by the second nonce the server has issued and nobody has used.          *)
(***************************************************************************)
IssueNonces == IssueNonceUpTo(MaxNonces + 1)

SubmitAltered ==
    SubmitFrom({"none", "swapNonce", "swapContext", "swapBody"} \cup FieldTampers,
               {NonceName(MaxNonces + 1)})

ReplayNext ==
    \/ Login
    \/ IssueNonces
    \/ ClientSign
    \/ SubmitAltered
    \/ VerifyGetSession
    \/ VerifyConsumeNonce
    \/ VerifyBody
    \/ TouchGet
    \/ TouchStore

-----------------------------------------------------------------------------
(***************************************************************************)
(* SpecSession: the stored session under every endpoint that reads or      *)
(* writes it: login, logout, GET /api/nonce, GET /api/session/info and     *)
(* protected requests, as the client built them or carrying another nonce. *)
(***************************************************************************)
MaxInfoRequests == 1

\* GET /api/session/info (server.ts 454-476): 401 without the header or
\* without a session, else 200 with five fields of the session.  The
\* handler's one await is its getSession call.
sessionInfo(sessionId, session) ==
    IF sessionId \in {None, ""}
    THEN [status |-> 401, error |-> "Missing session ID", body |-> Nil]
    ELSE IF session = Nil
    THEN [status |-> 401, error |-> "Session not found", body |-> Nil]
    ELSE [status |-> 200, error |-> None,
          body |-> [ sessionId |-> session.sessionId, userId |-> session.userId,
                     createdAt |-> session.createdAt, lastAccess |-> session.lastAccess,
                     expiresAt |-> session.expiresAt ]]

SessionInfo ==
    /\ Len(infoReqs) < MaxInfoRequests
    /\ \E sessionId \in {None, SessionName(0)} \cup SessionPool :
          /\ infoReqs' = Append(infoReqs, sessionInfo(sessionId,
                 IF sessionId = None THEN Nil ELSE getSession(sessionId)))
          /\ IF sessionId = None
             THEN UNCHANGED <<inMemoryStore, inMemoryExpiry>>
             ELSE SetStore(getSessionAfter(sessionId))
    /\ UNCHANGED <<redis, now, ticks, reqs, generated, signedReqs, returnedTrue, deleted, nonceReqs>>
    /\ EndpointOnly

SessionNext ==
    \/ Tick
    \/ Login
    \/ Logout
    \/ IssueNonce
    \/ SessionInfo
    \/ ClientSign
    \/ SubmitSigned
    \/ VerifyGetSession
    \/ VerifyConsumeNonce
    \/ VerifyBody
    \/ TouchGet
    \/ TouchStore

-----------------------------------------------------------------------------
(***************************************************************************)
(* SpecSigner: the signing iframe (unnamed/part_000, key-storage.ts).      *)
(* handleMessage is an async listener: an invocation runs to its first     *)
(* await when the message event is dispatched, and each later stretch runs *)
(* when the IndexedDB request or crypto operation it waits for completes.  *)
(* Stretches that touch only the invocation's locals are joined to the     *)
(* stretch before them.                                                    *)
(***************************************************************************)
MaxMessages == 3
MaxFailures == 1

ALLOWED_ORIGINS ==
    { "http://localhost:3000", "http://127.0.0.1:3000",
      "https://example.com", "https://www.example.com" }

\* An origin check that lets every origin in.
OriginAllowed_Any(origin) == TRUE

\* ALLOWED_ORIGINS.includes(event.origin)
OriginAllowed(origin) == origin \in ALLOWED_ORIGINS

\* A reply broadcast to any origin.
TargetOrigin_Star(origin) == "*"

\* { targetOrigin: event.origin }
TargetOrigin(origin) == origin

NoKeyPairMsg == "No key pair found. Initialize first."

\* The SigningResponse objects.
Failure(requestId, error) ==
    [ requestId |-> requestId, success |-> FALSE, error |-> error,
      signature |-> Nil, publicKey |-> Nil ]
SignatureResponse(requestId, signatureBase64) ==
    [ requestId |-> requestId, success |-> TRUE, error |-> None,
      signature |-> signatureBase64, publicKey |-> Nil ]
PublicKeyResponse(requestId, publicKey) ==
    [ requestId |-> requestId, success |-> TRUE, error |-> None,
      signature |-> Nil, publicKey |-> publicKey ]

\* event.source?.postMessage(response, { targetOrigin: event.origin }) of
\* invocation id, as the outbox entry it leaves.  The source of a message
\* posted by a window is that window, never null.
Posted(id, origin, response) ==
    [ handler |-> id, targetOrigin |-> TargetOrigin(origin), response |-> response ]

\* Message data as SigningClient builds it.
InitRequest(requestId) ==
    JObj(<<KV("type", JStr("INIT")), KV("requestId", requestId)>>)
GetPublicKeyRequest(requestId) ==
    JObj(<<KV("type", JStr("GET_PUBLIC_KEY")), KV("requestId", requestId)>>)
SignRequest(requestId, action, proof, nonce) ==
    JObj(<<KV("type", JStr("SIGN")), KV("requestId", requestId),
           KV("action", action), KV("proof", proof), KV("nonce", nonce)>>)

\* The message events that may be posted as the id-th message: the
\* client's requests, malformed data, and messages from other origins.
Messages(id) ==
    LET requestId == JStr("req-" \o ToString(id))
        n == NonceName(1)
        TransferAction == MkAction(JStr("Transfer Funds"), PayloadFor("Transfer Funds"))
        from(origin, data) == [origin |-> origin, data |-> data]
    IN  { from("https://example.com", d) : d \in
            { InitRequest(requestId),
              GetPublicKeyRequest(requestId),
              SignRequest(requestId, TransferAction,
                          ClickProof("Transfer Funds", n, Now0), JStr(n)),
              SignRequest(requestId, TransferAction,
                          ClickProof("Delete Account", n, Now0), JStr(n)),
              JObj(<<KV("type", JStr("SIGN")), KV("requestId", requestId)>>),
              JObj(<<KV("type", JStr("PING")), KV("requestId", requestId)>>),
              JObj(<<KV("type", JStr("INIT"))>>),
              JObj(<<KV("requestId", requestId)>>),
              JNull } }
        \cup { from("http://localhost:3000", InitRequest(requestId)) }
        \cup { from("https://evil.example", d) : d \in
                 { InitRequest(requestId),
                   SignRequest(requestId, TransferAction,
                               ClickProof("Transfer Funds", n, Now0), JStr(n)) } }

\* A handleMessage invocation: the event, where it stands, the key pair
\* getKeyPair or generateKeyPair gave it, whether it has called signData,
\* whether the key pair it signed with was then still the stored one, and
\* whether an IndexedDB request or crypto operation it awaited has failed,
\* and the invocations that were in progress when it began.
NewHandler(event, pc) ==
    [ origin |-> event.origin, data |-> event.data, pc |-> pc,
      keyPair |-> Nil, signed |-> FALSE, staleKey |-> FALSE, failed |-> FALSE,
      during |-> {} ]

\* The invocations in progress.
InProgress == {h \in 1..Len(handlers) : handlers[h].pc \notin {"done", "dropped"}}

\* A handleSign that skips validateProof.
handleSignStart_NoGate(requestId, action, proof, nonce) ==
    [pc |-> "sign_get", response |-> Nil]

\* handleSign up to its first await (lines 204-222); a throw of
\* validateProof is caught by handleMessage (lines 141-148).
handleSignStart(requestId, action, proof, nonce) ==
    LET validation == validateProof(proof, action, Now0)
    IN  IF validation.threw
        THEN [pc |-> "done", response |-> Failure(requestId, validation.error)]
        ELSE IF ~validation.valid
        THEN [pc |-> "done", response |-> Failure(requestId, validation.error)]
        ELSE [pc |-> "sign_get", response |-> Nil]

\* handleMessage up to its first await (lines 91-137): the invocation
\* record and the response it has posted, if any.
handleMessageStart(event) ==
    LET request == event.data
        type == Prop(request, "type")
        requestId == Prop(request, "requestId")
        running(pc) == [handler |-> NewHandler(event, pc), response |-> Nil]
    IN  IF ~OriginAllowed(event.origin)
        THEN running("dropped")
        ELSE IF ~Truthy(request) \/ ~Truthy(type) \/ ~Truthy(requestId)
        THEN running("dropped")
        ELSE IF StrictEquals(type, JStr("INIT")) THEN running("init_delete")
        ELSE IF StrictEquals(type, JStr("GET_PUBLIC_KEY")) THEN running("getpk_get")
        ELSE IF StrictEquals(type, JStr("SIGN"))
        THEN LET start == handleSignStart(requestId, Prop(request, "action"),
                              Prop(request, "proof"), Prop(request, "nonce"))
             IN  [handler |-> NewHandler(event, start.pc), response |-> start.response]
        ELSE [ handler |-> NewHandler(event, "done"),
               response |-> Failure(requestId,
                   "Unknown request type: " \o TemplateString(type)) ]

SignerInit ==
    /\ \E k \in 0..1 :
          /\ keysMade = k
          /\ keyStore = IF k = 0 THEN Nil ELSE KeyPair(k)
    /\ handlers = <<>>
    /\ outbox = <<>>

SignerOnly == UNCHANGED <<serverVars, endpointVars, codecVars, proofVars, appVars>>

SetHandler(h, record) == handlers' = [handlers EXCEPT ![h] = record]
Respond(h, response) ==
    outbox' = Append(outbox, Posted(h, handlers[h].origin, response))

\* A window posts a message to the iframe and the event is dispatched.
Deliver ==
    /\ Len(handlers) < MaxMessages
    /\ \E event \in Messages(Len(handlers) + 1) :
          LET start == handleMessageStart(event)
          IN  /\ handlers' = Append(handlers, [start.handler EXCEPT !.during = InProgress])
              /\ outbox' = IF start.response = Nil THEN outbox
                           ELSE Append(outbox, Posted(Len(handlers) + 1,
                                           event.origin, start.response))
    /\ UNCHANGED <<keyStore, keysMade>>
    /\ SignerOnly

\* An awaited IndexedDB request or crypto operation may fail, at most
\* MaxFailures times in a run.
CanFail == Cardinality({h \in 1..Len(handlers) : handlers[h].failed}) < MaxFailures

\* A response that reports a failure as a success.
Caught_AsSuccess(h, message) ==
    /\ SetHandler(h, [handlers[h] EXCEPT !.pc = "done", !.failed = TRUE])
    /\ Respond(h, [Failure(Prop(handlers[h].data, "requestId"), message)
                      EXCEPT !.success = TRUE, !.error = None])

\* The awaited promise rejects with Error(message): handleMessage's catch
\* (lines 141-148) posts the error response.
Caught(h, message) ==
    /\ SetHandler(h, [handlers[h] EXCEPT !.pc = "done", !.failed = TRUE])
    /\ Respond(h, Failure(Prop(handlers[h].data, "requestId"), message))

\* handleInit: deleteKeyPair's delete request completes, and generateKey
\* gives the invocation a new key pair; storeKeyPair is called.  Either
\* await may reject.
InitDelete ==
    /\ \E h \in 1..Len(handlers) :
          /\ handlers[h].pc = "init_delete"
          /\ \/ /\ keyStore' = Nil
                /\ keysMade' = keysMade + 1
                /\ SetHandler(h, [handlers[h] EXCEPT !.pc = "init_store",
                                                     !.keyPair = KeyPair(keysMade + 1)])
                /\ UNCHANGED outbox
             \/ /\ CanFail
                /\ Caught(h, "Failed to delete key pair")
                /\ UNCHANGED <<keyStore, keysMade>>
             \/ /\ CanFail
                /\ keyStore' = Nil
                /\ Caught(h, "OperationError")
                /\ UNCHANGED keysMade
    /\ SignerOnly

\* handleInit: storeKeyPair's put completes and exportPublicKey is called
\* (lines 164-167).  The put may reject.
InitStore ==
    /\ \E h \in 1..Len(handlers) :
          /\ handlers[h].pc = "init_store"
          /\ \/ /\ keyStore' = handlers[h].keyPair
                /\ SetHandler(h, [handlers[h] EXCEPT !.pc = "init_export"])
                /\ UNCHANGED outbox
             \/ /\ CanFail
                /\ Caught(h, "Failed to store key pair")
                /\ UNCHANGED keyStore
    /\ UNCHANGED keysMade
    /\ SignerOnly

\* handleInit: exportKey completes and the response is posted (lines
\* 167-175), or exportKey rejects.  Two exports that run together complete
\* in either order.
InitExport ==
    /\ \E h \in 1..Len(handlers) :
          /\ handlers[h].pc = "init_export"
          /\ \/ /\ SetHandler(h, [handlers[h] EXCEPT !.pc = "done"])
                /\ Respond(h, PublicKeyResponse(Prop(handlers[h].data, "requestId"),
                                  exportPublicKey(handlers[h].keyPair.publicKey)))
             \/ /\ CanFail
                /\ Caught(h, "OperationError")
    /\ UNCHANGED <<keyStore, keysMade>>
    /\ SignerOnly

\* handleGetPublicKey: getKeyPair's get completes, or rejects.
GetPublicKey ==
    /\ \E h \in 1..Len(handlers) :
          /\ handlers[h].pc = "getpk_get"
          /\ \/ /\ SetHandler(h, [handlers[h] EXCEPT !.pc = "done", !.keyPair = keyStore])
                /\ Respond(h, IF keyStore = Nil
                              THEN Failure(Prop(handlers[h].data, "requestId"), NoKeyPairMsg)
                              ELSE PublicKeyResponse(Prop(handlers[h].data, "requestId"),
                                       exportPublicKey(keyStore.publicKey)))
             \/ /\ CanFail
                /\ Caught(h, "Failed to retrieve key pair")
    /\ UNCHANGED <<keyStore, keysMade>>
    /\ SignerOnly

\* handleSign: getKeyPair's get completes; without a key pair the failure
\* is posted, with one signData is called.  The get may reject.
SignGet ==
    /\ \E h \in 1..Len(handlers) :
          /\ handlers[h].pc = "sign_get"
          /\ \/ IF keyStore = Nil
                THEN /\ SetHandler(h, [handlers[h] EXCEPT !.pc = "done"])
                     /\ Respond(h, Failure(Prop(handlers[h].data, "requestId"),
                                           NoKeyPairMsg))
                ELSE /\ SetHandler(h, [handlers[h] EXCEPT !.pc = "sign_sign",
                                                          !.keyPair = keyStore,
                                                          !.signed = TRUE])
                     /\ UNCHANGED outbox
             \/ /\ CanFail
                /\ Caught(h, "Failed to retrieve key pair")
    /\ UNCHANGED <<keyStore, keysMade>>
    /\ SignerOnly

\* handleSign: signData completes and the signature is posted, or signData
\* rejects.
SignSign ==
    /\ \E h \in 1..Len(handlers) :
          /\ handlers[h].pc = "sign_sign"
          /\ \/ /\ SetHandler(h, [handlers[h] EXCEPT
                                    !.pc = "done",
                                    !.staleKey = (keyStore # handlers[h].keyPair)])
                /\ Respond(h, SignatureResponse(Prop(handlers[h].data, "requestId"),
                                  SignMessage(handlers[h].keyPair,
                                      Prop(handlers[h].data, "action"),
                                      Prop(handlers[h].data, "proof"),
                                      TemplateString(Prop(handlers[h].data, "nonce")))))
             \/ /\ CanFail
                /\ Caught(h, "OperationError")
    /\ UNCHANGED <<keyStore, keysMade>>
    /\ SignerOnly

SignerNext ==
    \/ Deliver
    \/ InitDelete
    \/ InitStore
    \/ InitExport
    \/ GetPublicKey
    \/ SignGet
    \/ SignSign

-----------------------------------------------------------------------------
(***************************************************************************)
(* The interaction tracker of the main application (unnamed/part_012).     *)
(* A recorded interaction keeps the fields the matching reads (type,       *)
(* timestamp, actionContext, position) and the number of the physical      *)
(* gesture whose DOM events produced it.                                   *)
(***************************************************************************)
MAX_INTERACTIONS == 20
TrackerMaxAge == 5000
MaxGestures == 2
MaxCalls == 2
MaxClockTicks == 2

\* A velocity is totalDistance / totalTime, kept as the fraction in lowest
\* terms; a difference of two velocities may be negative.
RECURSIVE GCD(_, _)
GCD(a, b) == IF b = 0 THEN a ELSE GCD(b, a % b)
Abs(n) == IF n < 0 THEN 0 - n ELSE n
Fraction(n, d) ==
    LET g == GCD(Abs(n), d) IN [num |-> (n \div g), den |-> (d \div g)]
Zero == Fraction(0, 1)
Difference(a, b) == Fraction((a.num * b.den) - (b.num * a.den), a.den * b.den)

\* Math.sqrt(dx * dx + dy * dy), for the moves of the model: their squared
\* lengths are perfect squares.
Distance(dx, dy) ==
    CHOOSE d \in 0..(Abs(dx) + Abs(dy)) : d * d = (dx * dx) + (dy * dy)

\* this.trajectoryPoints.slice(-5)
LastFive(points) ==
    IF Len(points) <= 5 THEN points ELSE SubSeq(points, Len(points) - 4, Len(points))

RECURSIVE TotalDistance(_, _)
TotalDistance(recent, i) ==
    IF i > Len(recent) THEN 0
    ELSE Distance(recent[i].x - recent[i - 1].x, recent[i].y - recent[i - 1].y)
             + TotalDistance(recent, i + 1)

\* calculateVelocity (lines 1007-1028): the number it returns.
calculateVelocity(points) ==
    IF Len(points) < 2 THEN Zero
    ELSE LET recent == LastFive(points)
             totalTime == recent[Len(recent)].timestamp - recent[1].timestamp
         IN  IF totalTime > 0 THEN Fraction(TotalDistance(recent, 2), totalTime) ELSE Zero

\* calculateVelocity: this.lastVelocity when it has returned; the early
\* return for fewer than two points leaves it alone (line 1008), otherwise
\* line 1026 stores the velocity just computed.
lastVelocityAfter(points, last) ==
    IF Len(points) < 2 THEN last ELSE calculateVelocity(points)

\* calculateAcceleration (lines 1033-1037): it calls calculateVelocity and
\* then subtracts this.lastVelocity as that call left it.
calculateAcceleration(points, last) ==
    Difference(calculateVelocity(points), lastVelocityAfter(points, last))

\* The object a listener passes to recordInteraction, built while
\* this.lastVelocity is last: velocity is evaluated first, acceleration
\* second.  velocityBefore is history: this.lastVelocity when the listener
\* started.
RecordedInteraction(type, context, position, last) ==
    [ type |-> type, timestamp |-> clock, actionContext |-> context,
      position |-> position,
      velocity |-> calculateVelocity(trajectoryPoints),
      acceleration |-> calculateAcceleration(trajectoryPoints,
                           lastVelocityAfter(trajectoryPoints, last)),
      velocityBefore |-> last,
      gesture |-> gestures + 1 ]

\* this.lastVelocity after a listener has built its record.
LastVelocityRecorded == lastVelocityAfter(trajectoryPoints, lastVelocity)

\* recordInteraction (lines 858-865): push, then shift when over the cap.
recordInteraction(pool, interaction) ==
    LET pushed == Append(pool, interaction)
    IN  IF Len(pushed) > MAX_INTERACTIONS THEN Tail(pushed) ELSE pushed

\* findMatchingInteraction's loop (lines 907-921) from index i downwards:
\* the index of the record it returns, 0 for null.
RECURSIVE findMatchingFrom(_, _, _, _)
findMatchingFrom(pool, displayName, t, i) ==
    IF i < 1 THEN 0
    ELSE IF t - pool[i].timestamp > TrackerMaxAge
    THEN findMatchingFrom(pool, displayName, t, i - 1)
    ELSE IF pool[i].actionContext = displayName THEN i
    ELSE findMatchingFrom(pool, displayName, t, i - 1)

\* A search that takes no account of a record's age.
findMatchingInteraction_AnyAge(pool, displayName, t) ==
    findMatchingFrom(pool, displayName, 0, Len(pool))

findMatchingInteraction(pool, displayName, t) ==
    findMatchingFrom(pool, displayName, t, Len(pool))

\* this.interactions.splice(i, 1)
Splice(pool, i) == SubSeq(pool, 1, i - 1) \o SubSeq(pool, i + 1, Len(pool))

\* An interaction proof is over-long to carry whole: the fields copied
\* from the record, and freshness.
ProofFrom(recent, t) ==
    [ type |-> recent.type, timestamp |-> recent.timestamp, freshness |-> t,
      actionContext |-> recent.actionContext, position |-> recent.position,
      gesture |-> recent.gesture ]

TrackerInit ==
    /\ interactions = <<>>
    /\ gestures = 0
    /\ proofsGiven = <<>>
    /\ clock = Now0
    /\ lastVelocity = Zero
    /\ trajectoryPoints = <<>>
    /\ moves = 0

TrackerOnly == UNCHANGED <<serverVars, endpointVars, signerVars, codecVars, proofVars, bufferVars, pageVars, clientVars>>

\* The user clicks a button that is not a form's submit button: the click
\* listener (lines 797-811) records it.
Click ==
    /\ gestures < MaxGestures
    /\ \E context \in DisplayNames :
          interactions' = recordInteraction(interactions,
              RecordedInteraction("click", context, <<40, 20>>, lastVelocity))
    /\ lastVelocity' = LastVelocityRecorded
    /\ gestures' = gestures + 1
    /\ UNCHANGED <<proofsGiven, clock>>
    /\ TrackerOnly

\* The user clicks the submit button of a form: the browser dispatches the
\* click event and then the form's submit event, and both listeners (lines
\* 797-811 and 814-829) record; getActionContext gives the button's text
\* and getFormContext the text of the form's submit button.
ClickSubmit ==
    /\ gestures < MaxGestures
    /\ \E context \in DisplayNames :
          interactions' = recordInteraction(
              recordInteraction(interactions,
                  RecordedInteraction("click", context, <<40, 20>>, lastVelocity)),
              RecordedInteraction("submit", context, <<0, 0>>, LastVelocityRecorded))
    /\ lastVelocity' = LastVelocityRecorded
    /\ gestures' = gestures + 1
    /\ UNCHANGED <<proofsGiven, clock>>
    /\ TrackerOnly

\* The user presses Enter on a focused element outside a form: the
\* keypress listener (lines 832-852) records it.
PressEnter ==
    /\ gestures < MaxGestures
    /\ \E context \in DisplayNames :
          interactions' = recordInteraction(interactions,
              RecordedInteraction("keypress", context, <<0, 0>>, lastVelocity))
    /\ lastVelocity' = LastVelocityRecorded
    /\ gestures' = gestures + 1
    /\ UNCHANGED <<proofsGiven, clock>>
    /\ TrackerOnly

\* getInteractionProof(action, nonce) (lines 870-897).
GetInteractionProof ==
    /\ Len(proofsGiven) < MaxCalls
    /\ \E displayName \in DisplayNames :
          LET i == findMatchingInteraction(interactions, displayName, clock)
          IN  /\ interactions' = IF i = 0 THEN interactions ELSE Splice(interactions, i)
              /\ proofsGiven' = Append(proofsGiven,
                     [ action |-> displayName, gesturesBefore |-> gestures,
                       proof |-> IF i = 0 THEN Nil
                                 ELSE ProofFrom(interactions[i], clock) ])
    /\ UNCHANGED <<gestures, clock, lastVelocity>>
    /\ TrackerOnly

\* Time passes in the page: one millisecond, or the maximum age; at most
\* MaxClockTicks advances in a run.
TrackerTick ==
    /\ ((clock - Now0) \div TrackerMaxAge) + ((clock - Now0) % TrackerMaxAge) < MaxClockTicks
    /\ \E step \in {1, TrackerMaxAge} : clock' = clock + step
    /\ UNCHANGED <<interactions, gestures, proofsGiven, lastVelocity>>
    /\ TrackerOnly

TrackerNext == Click \/ ClickSubmit \/ PressEnter \/ GetInteractionProof \/ TrackerTick

(***************************************************************************)
(* SpecBuffers: the tracker's two bounded buffers at their caps.  The      *)
(* page has been in use: the trajectory buffer holds 99 or 100 points and  *)
(* the pool 19 or 20 records when the run starts (or both are empty).      *)
(* seq numbers the mousemove events, as gesture numbers the gestures.      *)
(***************************************************************************)
MAX_TRAJECTORY_POINTS == 100
MaxMoves == 3

\* A mousemove listener that never shifts.
pushTrajectoryPoint_NoShift(points, point) == Append(points, point)

\* The mousemove listener (lines 784-795): push, then shift when over the
\* cap.
pushTrajectoryPoint(points, point) ==
    LET pushed == Append(points, point)
    IN  IF Len(pushed) > MAX_TRAJECTORY_POINTS THEN Tail(pushed) ELSE pushed

\* The n points of the mousemove events before the run, the last of them
\* numbered 0.
EarlierPoints(n) ==
    [i \in 1..n |-> [x |-> i, y |-> 200, timestamp |-> i * 16, seq |-> i - n]]

\* The n records of the gestures before the run, the last of them
\* numbered 0.
EarlierInteractions(n) ==
    [i \in 1..n |->
        [ type |-> "click", timestamp |-> Now0 - 1000 * (n - i + 1),
          actionContext |-> IF i % 2 = 0 THEN "Transfer Funds" ELSE "Delete Account",
          position |-> <<40, 20>>, velocity |-> Zero, acceleration |-> Zero,
          velocityBefore |-> Zero, gesture |-> i - n ]]

BuffersInit ==
    /\ \E n \in {0, MAX_INTERACTIONS - 1, MAX_INTERACTIONS} :
          interactions = EarlierInteractions(n)
    /\ \E n \in {0, MAX_TRAJECTORY_POINTS - 1, MAX_TRAJECTORY_POINTS} :
          trajectoryPoints = EarlierPoints(n)
    /\ gestures = 0
    /\ moves = 0
    /\ proofsGiven = <<>>
    /\ clock = Now0
    /\ lastVelocity = Zero

\* The mouse moves: the mousemove listener runs.
MouseMove ==
    /\ moves < MaxMoves
    /\ trajectoryPoints' = pushTrajectoryPoint(trajectoryPoints,
           [x |-> 300 + moves, y |-> 200, timestamp |-> 2000 + 16 * moves,
            seq |-> moves + 1])
    /\ moves' = moves + 1
    /\ UNCHANGED <<trackerVars, serverVars, endpointVars, signerVars, codecVars,
                   proofVars, pageVars, clientVars>>

BuffersNext == MouseMove \/ Click \/ ClickSubmit \/ PressEnter \/ GetInteractionProof

(***************************************************************************)
(* The main application: handleLogin, handleLogout and                     *)
(* handleProtectedAction (unnamed/part_001) over SessionManager            *)
(* (main-app/src/lib/session-manager.ts) and APIClient.request             *)
(* (api-server/src/server.ts 622-678), against the server's endpoints and  *)
(* the signing iframe.  The page's requests to the iframe are sequential   *)
(* here: handleLogin awaits initialize() before anything else.             *)
(***************************************************************************)
MaxLogins == 2
MaxActions == 2

LoggedOutManager == [sessionId |-> None, user |-> None, publicKey |-> Nil]

\* request.headers.get(name) on the headers a fetch call passes.
HeaderGet(headers, name) == IF name \in DOMAIN headers THEN headers[name] ELSE None

\* The headers option of SessionManager.logout's fetch (lines 115-118) and
\* of SessionManager.fetchNonce's fetch (lines 139-142): none is given;
\* credentials:"include" sends the session_id cookie only.
LogoutFetchHeaders == [h \in {} |-> None]
NonceFetchHeaders == [h \in {} |-> None]

\* POST /api/auth/logout (server.ts 384-407): the store it leaves.
logoutEndpointAfter(headers) ==
    LET sessionId == HeaderGet(headers, "X-Session-ID")
    IN  IF sessionId # None THEN deleteSessionAfter(sessionId)
        ELSE [store |-> inMemoryStore, expiry |-> inMemoryExpiry]

\* GET /api/nonce (server.ts 410-451): the status and error of the
\* response.
nonceEndpoint(headers) ==
    LET sessionId == HeaderGet(headers, "X-Session-ID")
    IN  IF sessionId = None THEN [status |-> 401, error |-> "Session ID required"]
        ELSE IF getSession(sessionId) = Nil
        THEN [status |-> 401, error |-> "Invalid or expired session"]
        ELSE [status |-> 200, error |-> None]

\* SessionManager.fetchNonce (lines 137-154): throws unless response.ok.
fetchNonce ==
    LET response == nonceEndpoint(NonceFetchHeaders)
    IN  IF response.status # 200 THEN Throw("Failed to fetch nonce")
        ELSE [valid |-> TRUE, threw |-> FALSE, error |-> None]

PageInit ==
    /\ sessionManager = LoggedOutManager
    /\ loginPending = Nil
    /\ loggedOut = {}
    /\ outcomes = <<>>
    /\ apiCalls = <<>>

\* handleLogin up to the login fetch (part_001 78-100):
\* signingClient.initialize() has the iframe run handleInit, which
\* replaces the stored key pair and answers with the new public key.
HandleLoginInit ==
    /\ sessionManager.sessionId = None
    /\ loginPending = Nil
    /\ keysMade < MaxLogins
    /\ keysMade' = keysMade + 1
    /\ keyStore' = KeyPair(keysMade + 1)
    /\ loginPending' = exportPublicKey(Pub(keysMade + 1))
    /\ UNCHANGED <<serverVars, endpointVars, handlers, outbox, codecVars, proofVars, clientVars,
                   trackerVars, bufferVars, sessionManager, loggedOut, outcomes, apiCalls>>

\* sessionManager.login (session-manager.ts 71-108) and the server's
\* POST /api/auth/login (server.ts 260-381): the session is stored with
\* the public key, and the session manager keeps the returned id.
HandleLoginFetch ==
    /\ loginPending # Nil
    /\ \E i \in 1..MaxLogins :
          /\ SessionName(i) \notin generated
          /\ \A j \in 1..(i - 1) : SessionName(j) \in generated
          /\ generated' = generated \cup {SessionName(i)}
          /\ SetStore(storeSessionAfter(
                 [ sessionId |-> SessionName(i),
                   userId    |-> "user-alice",
                   publicKey |-> JwkString(loginPending),
                   createdAt |-> now,
                   lastAccess |-> now,
                   ipAddress |-> "unknown",
                   userAgent |-> "unknown",
                   expiresAt |-> now + SESSION_TTL * 1000 ]))
          /\ sessionManager' = [ sessionId |-> SessionName(i), user |-> "alice",
                                 publicKey |-> loginPending ]
    /\ loginPending' = Nil
    /\ UNCHANGED <<redis, now, ticks, reqs, signedReqs, returnedTrue, deleted,
                   signerVars, codecVars, proofVars, clientVars, bufferVars, trackerVars, loggedOut, outcomes, apiCalls,
                   endpointVars>>

\* handleLogout (part_001 126-133): SessionManager.logout (lines 113-132)
\* posts to /api/auth/logout and clears its fields; the server runs its
\* logout endpoint on the request it received.  Nothing is sent to the
\* signing iframe.
HandleLogout ==
    /\ sessionManager.sessionId # None
    /\ SetStore(logoutEndpointAfter(LogoutFetchHeaders))
    /\ sessionManager' = LoggedOutManager
    /\ loggedOut' = loggedOut \cup {sessionManager.sessionId}
    /\ UNCHANGED <<redis, now, ticks, reqs, generated, signedReqs, returnedTrue,
                   deleted, endpointVars, signerVars, codecVars, proofVars, clientVars, bufferVars, trackerVars,
                   loginPending, outcomes, apiCalls>>

\* A click on a protected action's button while logged in: the tracker's
\* click listener records it (part_012 797-811), and the button's listener
\* (part_001 177-186) runs performSecureAction, whose APIClient.request
\* (server.ts 622-678) first awaits fetchNonce; when that throws, the call
\* ends with the error.
ProtectedClick ==
    /\ Len(outcomes) < MaxActions
    /\ sessionManager.sessionId # None
    /\ \E context \in DisplayNames :
          /\ interactions' = recordInteraction(interactions,
                 RecordedInteraction("click", context, <<40, 20>>, lastVelocity))
          /\ outcomes' = Append(outcomes,
                 [ action |-> context,
                   sessionId |-> sessionManager.sessionId,
                   sessionLive |-> getSession(sessionManager.sessionId) # Nil,
                   keyRegistered |-> keyStore # Nil,
                   nonceFetched |-> ~fetchNonce.threw,
                   error |-> fetchNonce.error ])
    /\ gestures' = gestures + 1
    /\ lastVelocity' = LastVelocityRecorded
    /\ UNCHANGED <<serverVars, endpointVars, signerVars, codecVars, proofVars, clientVars, bufferVars, proofsGiven,
                   clock, sessionManager, loginPending, loggedOut, apiCalls>>

AppNext == HandleLoginInit \/ HandleLoginFetch \/ HandleLogout \/ ProtectedClick \/ Tick

-----------------------------------------------------------------------------
(***************************************************************************)
(* SpecRequest: APIClient.request (api-server/src/server.ts 622-678) over  *)
(* the interaction tracker, one action per stretch between two awaits.     *)
(* What each awaited call answers (fetchNonce, signingClient.sign, fetch)  *)
(* is the other side's choice.  The caller may call request at any time,   *)
(* with or without a gesture before it.                                    *)
(***************************************************************************)
MaxApiCalls == 2

NewApiCall(displayName) ==
    [ action |-> displayName,
      pc |-> "fetchNonce",
      failedBefore |-> {c \in 1..Len(apiCalls) : apiCalls[c].result = "threw"},
      nonce |-> None,
      proof |-> Nil,
      noncesFetched |-> 1,
      recordsConsumed |-> 0,
      signsSent |-> 0,
      requestsSent |-> 0,
      result |-> "pending",
      error |-> None ]

\* throw new Error(msg): the promise request returned is rejected.
ApiThrown(call, msg) == [call EXCEPT !.pc = "done", !.result = "threw", !.error = msg]

SetApiCall(c, call) == apiCalls' = [apiCalls EXCEPT ![c] = call]

RequestOnly == UNCHANGED <<serverVars, endpointVars, signerVars, codecVars, proofVars, bufferVars, clientVars,
                           sessionManager, loginPending, loggedOut, outcomes>>

\* request is called (lines 622-643): it runs up to await fetchNonce().
RequestStart ==
    /\ Len(apiCalls) < MaxApiCalls
    /\ \E displayName \in DisplayNames :
          apiCalls' = Append(apiCalls, NewApiCall(displayName))
    /\ UNCHANGED trackerVars
    /\ RequestOnly

\* fetchNonce has answered (lines 643-655): it threw, or it returned a
\* nonce; with a nonce, getInteractionProof runs, and with a proof
\* signingClient.sign posts the SIGN request.
FetchNonceReturns ==
    /\ \E c \in 1..Len(apiCalls), fetched \in BOOLEAN :
          /\ apiCalls[c].pc = "fetchNonce"
          /\ IF ~fetched
             THEN /\ SetApiCall(c, ApiThrown(apiCalls[c], "Failed to fetch nonce"))
                  /\ UNCHANGED <<interactions, proofsGiven>>
             ELSE LET i == findMatchingInteraction(interactions, apiCalls[c].action, clock)
                      proof == IF i = 0 THEN Nil ELSE ProofFrom(interactions[i], clock)
                      call == [apiCalls[c] EXCEPT !.nonce = NonceName(c), !.proof = proof]
                  IN  /\ interactions' = IF i = 0 THEN interactions ELSE Splice(interactions, i)
                      /\ proofsGiven' = Append(proofsGiven,
                             [ action |-> apiCalls[c].action, gesturesBefore |-> gestures,
                               proof |-> proof ])
                      /\ SetApiCall(c,
                             IF i = 0
                             THEN ApiThrown(call, "No valid user interaction for this action. Please try clicking the button again.")
                             ELSE [call EXCEPT !.pc = "sign", !.recordsConsumed = @ + 1,
                                               !.signsSent = @ + 1])
    /\ UNCHANGED <<gestures, clock, lastVelocity>>
    /\ RequestOnly

\* signingClient.sign has settled (lines 655-671): it threw (the iframe
\* answered success:false or without a signature, or the request timed
\* out), or it returned the signature and fetch sends the request.
SignReturns ==
    /\ \E c \in 1..Len(apiCalls), signed \in BOOLEAN :
          /\ apiCalls[c].pc = "sign"
          /\ SetApiCall(c, IF signed
                           THEN [apiCalls[c] EXCEPT !.pc = "fetch", !.requestsSent = @ + 1]
                           ELSE ApiThrown(apiCalls[c], "Signing failed"))
    /\ UNCHANGED trackerVars
    /\ RequestOnly

\* The server has answered (lines 671-678): response.ok, or an error
\* status whose message is thrown.
FetchReturns ==
    /\ \E c \in 1..Len(apiCalls), ok \in BOOLEAN :
          /\ apiCalls[c].pc = "fetch"
          /\ SetApiCall(c, IF ok
                           THEN [apiCalls[c] EXCEPT !.pc = "done", !.result = "returned"]
                           ELSE ApiThrown(apiCalls[c], "Request failed"))
    /\ UNCHANGED trackerVars
    /\ RequestOnly

RequestNext ==
    \/ Click \/ ClickSubmit \/ PressEnter \/ TrackerTick
    \/ RequestStart \/ FetchNonceReturns \/ SignReturns \/ FetchReturns

(***************************************************************************)
(* The signing client of the main application                              *)
(* (main-app/src/lib/signing-client.ts).  A call of sendRequest is the     *)
(* promise it returned: pending (result Nil), resolved with a response or  *)
(* rejected with an error.  timerFired and late are history: the entry's   *)
(* timer callback has run; a response arrived when the entry was gone.     *)
(***************************************************************************)
SIGNING_IFRAME_URL == "http://localhost:3001"
REQUEST_TIMEOUT_MS == 10000
MaxClientCalls == 2
MaxClientTicks == 3

RequestName(i) == "req-" \o ToString(i)
TimedOut == [kind |-> "rejected", value |-> [message |-> "Signing request timed out"]]
FailedToLoad == [kind |-> "rejected", value |-> [message |-> "Signing iframe failed to load"]]
WentOn == [kind |-> "ready"]
Resolved(data) == [kind |-> "resolved", value |-> data]
CallOf(requestId) == CHOOSE c \in 1..Len(calls) : calls[c].requestId = requestId

ClientInit ==
    /\ isReady = FALSE
    /\ pendingRequests = [id \in {} |-> 0]
    /\ calls = <<>>
    /\ readyWaits = <<>>
    /\ clock = Now0

ClientOnly == UNCHANGED <<serverVars, endpointVars, signerVars, codecVars, proofVars, pageVars, bufferVars, interactions, gestures, proofsGiven, lastVelocity>>

\* The requestId the next sendRequest call is given (generateRequestId,
\* lines 143-145): one that no earlier call was given.
NextRequestId == RequestName(Len(readyWaits) + Len(calls) + 1)

\* The waitReady() calls that are still waiting, as indexes of readyWaits.
Waiting == {w \in 1..Len(readyWaits) : readyWaits[w].result = Nil}

\* The k-th still waiting call, in call order.
RECURSIVE NthWaiting(_)
NthWaiting(k) ==
    IF k = 1 THEN CHOOSE w \in Waiting : \A v \in Waiting : w <= v
    ELSE CHOOSE w \in Waiting : w > NthWaiting(k - 1)
                       /\ \A v \in Waiting : v > NthWaiting(k - 1) => w <= v

\* A timer callback that leaves the entry in the map.
deleteEntry_Keep(pending, requestId) == pending

\* this.pendingRequests.delete(requestId) (lines 91, 130).
deleteEntry(pending, requestId) == [id \in DOMAIN pending \ {requestId} |-> pending[id]]

\* The promise sendRequest returns once the iframe is ready (lines
\* 128-137): the timer is set, the entry stored and the request posted.
NewCall(requestId) == [requestId |-> requestId, sentAt |-> clock, result |-> Nil, settledAt |-> 0, timerFired |-> FALSE, late |-> FALSE]

\* The iframe's READY message arrives (lines 82-87): isReady is set and
\* readyPromise resolved, and every sendRequest call that still waits in
\* waitReady() goes on, in call order, to set its timer and post its
\* request (lines 128-137) before any other event is handled.
Ready ==
    /\ ~isReady
    /\ isReady' = TRUE
    /\ readyWaits' = [w \in 1..Len(readyWaits) |->
                         IF w \in Waiting
                         THEN [readyWaits[w] EXCEPT !.result = WentOn, !.settledAt = clock]
                         ELSE readyWaits[w]]
    /\ calls' = calls \o [k \in 1..Cardinality(Waiting) |->
                              NewCall(readyWaits[NthWaiting(k)].requestId)]
    /\ pendingRequests' =
          [id \in DOMAIN pendingRequests \cup {readyWaits[w].requestId : w \in Waiting} |->
              IF id \in DOMAIN pendingRequests THEN pendingRequests[id]
              ELSE clock + REQUEST_TIMEOUT_MS]
    /\ UNCHANGED clock
    /\ ClientOnly

\* sendRequest before the iframe is ready (lines 120-126): the call waits
\* in waitReady(), whose timer is set for 10 s (lines 104-114).
SendRequestBeforeReady ==
    /\ ~isReady
    /\ Len(readyWaits) + Len(calls) < MaxClientCalls
    /\ readyWaits' = Append(readyWaits,
          [requestId |-> NextRequestId, calledAt |-> clock,
           deadline |-> clock + REQUEST_TIMEOUT_MS, result |-> Nil, settledAt |-> 0])
    /\ UNCHANGED <<isReady, pendingRequests, calls, clock>>
    /\ ClientOnly

\* The timer of a waitReady() call runs while READY has not arrived (lines
\* 107-113): the race rejects and sendRequest throws its error.  After
\* READY the race is settled and the timer's rejection changes nothing.
WaitTimerFires ==
    /\ \E w \in Waiting :
          /\ clock >= readyWaits[w].deadline
          /\ readyWaits' = [readyWaits EXCEPT ![w] =
                               [@ EXCEPT !.result = FailedToLoad, !.settledAt = clock]]
    /\ UNCHANGED <<isReady, pendingRequests, calls, clock>>
    /\ ClientOnly

\* sendRequest once the iframe is ready (lines 128-137): the timer is
\* set, the entry stored and the request posted to the iframe.
SendRequest ==
    /\ isReady
    /\ Len(readyWaits) + Len(calls) < MaxClientCalls
    /\ LET requestId == NextRequestId
       IN  /\ pendingRequests' = [id \in DOMAIN pendingRequests \cup {requestId} |->
                                     IF id = requestId THEN clock + REQUEST_TIMEOUT_MS
                                     ELSE pendingRequests[id]]
           /\ calls' = Append(calls, NewCall(requestId))
    /\ UNCHANGED <<isReady, clock, readyWaits>>
    /\ ClientOnly

\* The timer callback of a pending entry runs, not before its delay has
\* passed (lines 129-132): the entry is deleted and the promise rejected.
TimerFires ==
    /\ \E requestId \in DOMAIN pendingRequests :
          /\ clock >= pendingRequests[requestId]
          /\ pendingRequests' = deleteEntry(pendingRequests, requestId)
          /\ calls' = [calls EXCEPT ![CallOf(requestId)] =
                          [@ EXCEPT !.result = TimedOut, !.settledAt = clock,
                                    !.timerFired = TRUE]]
    /\ UNCHANGED <<isReady, clock, readyWaits>>
    /\ ClientOnly

\* A message handler that settles the call without looking the entry up.
HandleResponse_NoLookup(data) ==
    /\ pendingRequests' = [id \in DOMAIN pendingRequests \ {data.requestId} |->
                              pendingRequests[id]]
    /\ calls' = [c \in 1..Len(calls) |->
                    IF calls[c].requestId = data.requestId
                    THEN [calls[c] EXCEPT !.result = Resolved(data), !.settledAt = clock]
                    ELSE calls[c]]

\* The message handler on a response (lines 90-97): a pending entry is
\* deleted, its timer cleared and its promise resolved; a response whose
\* requestId has no entry changes nothing.
HandleResponse(data) ==
    IF data.requestId \in DOMAIN pendingRequests
    THEN /\ pendingRequests' = deleteEntry(pendingRequests, data.requestId)
         /\ calls' = [calls EXCEPT ![CallOf(data.requestId)] =
                         [@ EXCEPT !.result = Resolved(data), !.settledAt = clock]]
    ELSE /\ UNCHANGED pendingRequests
         /\ calls' = [c \in 1..Len(calls) |->
                         IF calls[c].requestId = data.requestId
                         THEN [calls[c] EXCEPT !.late = TRUE]
                         ELSE calls[c]]

\* A handler that takes messages from every origin.
FromSigningIframe_AnyOrigin(origin) == TRUE

\* The origin test of the message handler (lines 75-77);
\* new URL(SIGNING_IFRAME_URL).origin is the URL itself.
FromSigningIframe(origin) == origin = SIGNING_IFRAME_URL

\* A message event with a requestId reaches the page's handler (lines
\* 73-98), from the iframe or from another window.  origin, next to the
\* fields of event.data, is history: the event's origin.
ResponseArrives ==
    /\ \E origin \in {SIGNING_IFRAME_URL, "http://evil.example"},
          requestId \in {RequestName(0)} \cup {calls[c].requestId : c \in 1..Len(calls)},
          success \in BOOLEAN :
          IF ~FromSigningIframe(origin)
          THEN UNCHANGED <<pendingRequests, calls>>
          ELSE HandleResponse([requestId |-> requestId, success |-> success,
                               origin |-> origin])
    /\ UNCHANGED <<isReady, clock, readyWaits>>
    /\ ClientOnly

\* Time passes in the page, at most MaxClientTicks times.
ClientTick ==
    /\ ((clock - Now0) \div (REQUEST_TIMEOUT_MS - 1))
           + ((clock - Now0) % (REQUEST_TIMEOUT_MS - 1)) < MaxClientTicks
    /\ \E step \in {1, REQUEST_TIMEOUT_MS - 1} : clock' = clock + step
    /\ UNCHANGED <<isReady, pendingRequests, calls, readyWaits>>
    /\ ClientOnly

\* The timers that are set and have not run: their deadlines.
Deadlines ==
    {pendingRequests[id] : id \in DOMAIN pendingRequests}
        \cup {readyWaits[w].deadline : w \in Waiting}

\* Time passes in the page until the next timer is due.
TimePasses ==
    /\ \E deadline \in Deadlines :
          /\ deadline > clock
          /\ \A other \in Deadlines : other >= deadline
          /\ clock' = deadline
    /\ UNCHANGED <<isReady, pendingRequests, calls, readyWaits>>
    /\ ClientOnly

ClientNext ==
    \/ Ready \/ SendRequestBeforeReady \/ SendRequest \/ WaitTimerFires
    \/ TimerFires \/ ResponseArrives \/ ClientTick \/ TimePasses

ServerIdle ==
    /\ redis = FALSE
    /\ inMemoryStore = <<>>
    /\ inMemoryExpiry = <<>>
    /\ now = 0
    /\ ticks = 0
    /\ reqs = <<>>
    /\ generated = {}
    /\ signedReqs = {}
    /\ returnedTrue = {}
    /\ deleted = {}
    /\ nonceReqs = <<>>
    /\ infoReqs = <<>>

SignerIdle ==
    /\ keyStore = Nil
    /\ keysMade = 0
    /\ handlers = <<>>
    /\ outbox = <<>>

CodecIdle == codecIn = Nil /\ codecOut = Nil
ProofIdle == proofIn = Nil /\ proofOut = Nil
BufferIdle == trajectoryPoints = <<>> /\ moves = 0
TrackerIdle == interactions = <<>> /\ gestures = 0 /\ proofsGiven = <<>> /\ clock = 0 /\ lastVelocity = Zero /\ BufferIdle
ClientIdle == isReady = FALSE /\ pendingRequests = <<>> /\ calls = <<>> /\ readyWaits = <<>>
AppIdle == TrackerIdle /\ PageInit /\ ClientIdle

SpecSignerInit == SignerInit /\ ServerIdle /\ CodecIdle /\ ProofIdle /\ AppIdle
SpecSigner == SpecSignerInit /\ [][SignerNext]_vars

SpecCodecInit == CodecInit /\ ServerIdle /\ SignerIdle /\ ProofIdle /\ AppIdle
SpecCodec == SpecCodecInit /\ [][CodecRun]_vars

SpecProofInit == ProofInit /\ ServerIdle /\ SignerIdle /\ CodecIdle /\ AppIdle
SpecProof == SpecProofInit /\ [][ProofRun]_vars

SpecTrackerInit == TrackerInit /\ PageInit /\ ClientIdle /\ ServerIdle /\ SignerIdle /\ CodecIdle /\ ProofIdle
SpecTracker == SpecTrackerInit /\ [][TrackerNext]_vars

SpecBuffersInit == BuffersInit /\ PageInit /\ ClientIdle /\ ServerIdle /\ SignerIdle /\ CodecIdle /\ ProofIdle
SpecBuffers == SpecBuffersInit /\ [][BuffersNext]_vars

SpecRequestInit == TrackerInit /\ PageInit /\ ClientIdle /\ ServerIdle /\ SignerIdle /\ CodecIdle /\ ProofIdle
SpecRequest == SpecRequestInit /\ [][RequestNext]_vars

SpecAppInit == ServerInit /\ SignerIdle /\ TrackerInit /\ PageInit /\ ClientIdle /\ CodecIdle /\ ProofIdle
SpecApp == SpecAppInit /\ [][AppNext]_vars

SpecClientInit ==
    /\ ClientInit /\ interactions = <<>> /\ gestures = 0 /\ proofsGiven = <<>> /\ lastVelocity = Zero /\ BufferIdle
    /\ PageInit /\ ServerIdle /\ SignerIdle /\ CodecIdle /\ ProofIdle
SpecClient == SpecClientInit /\ [][ClientNext]_vars

\* The page's event loop runs every timer callback that is due, and time
\* does not stop while a timer is set.
ClientFairness ==
    /\ WF_vars(TimerFires)
    /\ WF_vars(WaitTimerFires)
    /\ WF_vars(TimePasses)
SpecClientLive == SpecClientInit /\ [][ClientNext]_vars /\ ClientFairness

SpecStoreInit == ServerInit /\ SignerIdle /\ CodecIdle /\ ProofIdle /\ AppIdle
SpecStore == SpecStoreInit /\ [][StoreNext]_vars

SpecReplayInit == ServerInit /\ SignerIdle /\ CodecIdle /\ ProofIdle /\ AppIdle
SpecReplay == SpecReplayInit /\ [][ReplayNext]_vars

SpecFrameInit == ServerInit /\ SignerIdle /\ CodecIdle /\ ProofIdle /\ AppIdle
SpecFrame == SpecFrameInit /\ [][FrameNext]_vars

SpecSharedInit == ServerInit /\ SignerIdle /\ CodecIdle /\ ProofIdle /\ AppIdle
SpecShared == SpecSharedInit /\ [][SharedNext]_vars

SpecSessionInit == ServerInit /\ SignerIdle /\ CodecIdle /\ ProofIdle /\ AppIdle
SpecSession == SpecSessionInit /\ [][SessionNext]_vars

-----------------------------------------------------------------------------
(***************************************************************************)
(* Claims checked under SpecCodec and SpecProof.                           *)
(***************************************************************************)

\* C4: for every drawn (action, proof, nonce) the signing side's message and
\* the server's message are the same string canonicalize(action) | 
\* canonicalize(proof) | nonce, and the signature handleSign's signing half
\* makes over it verifies under the matching public key.
C4_SameMessageAndRoundTrip ==
    codecOut # Nil =>
        /\ codecOut.signerMessage = codecOut.serverMessage
        /\ codecOut.signerMessage =
               canonicalize(codecIn.action) \o "|" \o canonicalize(codecIn.proof)
                   \o "|" \o codecIn.nonce
        /\ codecOut.verified

\* C4 witness: a signed and verified message whose action has a nested
\* object payload with keys out of order.
C4_Witness ==
    /\ codecOut # Nil
    /\ codecOut.verified
    /\ ~codecOut.verifiedOtherKey
    /\ Prop(codecIn.action, "payload") =
           JObj(<<KV("to", JStr("bob")), KV("amount", JNum(250))>>)
    /\ codecIn.proof = ReverseKeys(CodecProofBase("nonce-0000000001"))

\* C5 (as claimed): both validators give the same verdict on every proof.
C5_SameVerdict ==
    proofOut # Nil => proofOut.signer.valid = proofOut.server.valid

-----------------------------------------------------------------------------
(***************************************************************************)
(* Claims checked under Spec.                                              *)
(***************************************************************************)

\* C1: for every nonce, at most one validateAndConsumeNonce call has
\* returned true, and a call that started after a call for the same nonce
\* had returned true has not returned true.
C1_NonceConsumedOnce ==
    /\ \A r, s \in 1..Len(reqs) :
           (r # s /\ reqs[r].nonceValid /\ reqs[s].nonceValid)
               => reqs[r].nonce # reqs[s].nonce
    /\ \A r \in 1..Len(reqs) : reqs[r].afterTrue => ~reqs[r].nonceValid

\* C1 witness: two calls for one nonce were in flight together (the loser
\* started before the winner returned); one returned true, the other false.
C1_Witness ==
    \E r, s \in 1..Len(reqs) :
        /\ r # s
        /\ reqs[r].nonce = reqs[s].nonce
        /\ reqs[r].nonceValid
        /\ ~reqs[s].afterTrue
        /\ reqs[s].pc = "done"
        /\ reqs[s].error = "Invalid or reused nonce"

\* C2 (as claimed): a finished verifyRequest either returned valid:true
\* after passing every step of the chain in order, with the nonce consumed
\* by this very request, or returned valid:false at its first failing step
\* with only the steps before it passed.
C2_ChainShortCircuits ==
    \A r \in 1..Len(reqs) :
        reqs[r].pc = "done" =>
            \/ /\ reqs[r].result = "valid"
               /\ reqs[r].trace = Chain
               /\ reqs[r].nonceValid
            \/ /\ reqs[r].result = "invalid"
               /\ Len(reqs[r].trace) <= Len(Chain)
               /\ \A i \in 1..Len(reqs[r].trace) : reqs[r].trace[i] = Chain[i]
               /\ Len(reqs[r].trace) >= 1

\* C3 (as claimed): a request identical to one already authorized is
\* rejected at the nonce step with 'Invalid or reused nonce'.
C3_ReplayRejectedAtNonceStep ==
    \A r \in 1..Len(reqs) :
        (reqs[r].afterAuthorized /\ reqs[r].pc = "done") =>
            /\ reqs[r].result = "invalid"
            /\ reqs[r].error = "Invalid or reused nonce"

\* C3 (amended): a request identical to one already authorized is never
\* authorized; it is rejected at the nonce step with 'Invalid or reused
\* nonce' when getSession still finds its session, and at the session step
\* with 'Invalid or expired session' when it does not.  Among identical
\* submissions at most one is authorized.
C3_ReplayNeverAuthorized ==
    /\ \A r \in 1..Len(reqs) :
           (reqs[r].afterAuthorized /\ reqs[r].pc = "done") =>
               /\ reqs[r].result = "invalid"
               /\ IF reqs[r].session # Nil
                  THEN reqs[r].error = "Invalid or reused nonce"
                  ELSE reqs[r].error = "Invalid or expired session"
    /\ \A r, s \in 1..Len(reqs) :
           (r # s /\ Content(reqs[r]) = Content(reqs[s]))
               => ~(reqs[r].result = "valid" /\ reqs[s].result = "valid")

\* C3 witness: an authorized request and a later identical one, rejected
\* at the nonce step while its session was found.
C3_Witness ==
    \E r, s \in 1..Len(reqs) :
        /\ reqs[r].result = "valid"
        /\ reqs[s].afterAuthorized
        /\ Content(reqs[s]) = Content(reqs[r])
        /\ reqs[s].pc = "done"
        /\ reqs[s].session # Nil
        /\ reqs[s].error = "Invalid or reused nonce"

\* C6: the signer signs only a proof whose actionContext is the action's
\* displayName, and the server authorizes no request whose signature is
\* over an action with another displayName than the actionContext of the
\* proof it was sent with.
C6_ContextBound ==
    /\ \A b \in signedReqs :
           Prop(b.signedProof, "actionContext") = Prop(b.signedAction, "displayName")
    /\ \A r \in 1..Len(reqs) :
           (reqs[r].pc \in {"touchGet", "touchStore"} \/ reqs[r].result = "valid")
               => Prop(reqs[r].proof, "actionContext")
                      = Prop(reqs[r].signedAction, "displayName")

\* C6 witness: a request with a consumed nonce and a signature made with
\* the session's key over an action named otherwise than the proof's
\* context has been rejected.
C6_Witness ==
    \E r \in 1..Len(reqs) :
        /\ reqs[r].pc = "done"
        /\ reqs[r].result = "invalid"
        /\ reqs[r].nonceValid
        /\ reqs[r].signature = SignMessage(KeyPair(1), reqs[r].signedAction,
                                           reqs[r].signedProof, reqs[r].nonce)
        /\ JwkString(exportPublicKey(Pub(1))) = reqs[r].session.publicKey
        /\ Prop(reqs[r].proof, "actionContext")
               # Prop(reqs[r].signedAction, "displayName")

-----------------------------------------------------------------------------
(***************************************************************************)
(* Claims checked under SpecSigner.                                        *)
(***************************************************************************)
ResponsesOf(h) == {i \in 1..Len(outbox) : outbox[i].handler = h}
Listed(h) == handlers[h].origin \in ALLOWED_ORIGINS
WellFormed(h) ==
    /\ handlers[h].data.t = "obj"
    /\ Truthy(Prop(handlers[h].data, "type"))
    /\ Truthy(Prop(handlers[h].data, "requestId"))
IsSign(h) ==
    Listed(h) /\ WellFormed(h) /\ Prop(handlers[h].data, "type") = JStr("SIGN")
Verdict(h) ==
    validateProof(Prop(handlers[h].data, "proof"), Prop(handlers[h].data, "action"),
                  Now0)

\* C7: a SIGN request is answered with a signature only if validateProof
\* accepted its proof and action and getKeyPair found a key pair; a request
\* whose proof is rejected is answered success:false with validateProof's
\* reason without signData being called; a request that finds no key pair
\* is answered success:false with 'No key pair found. Initialize first.'
\* and no signature.
C7_SignOnlyAfterGate ==
    \A h \in 1..Len(handlers) :
        IsSign(h) =>
            /\ handlers[h].signed => (Verdict(h).valid /\ handlers[h].keyPair # Nil)
            /\ \A i \in ResponsesOf(h) :
                   outbox[i].response.signature # Nil =>
                       /\ Verdict(h).valid
                       /\ handlers[h].signed
                       /\ outbox[i].response.signature.b64.signedBy
                              = handlers[h].keyPair.privateKey.id
            /\ ~Verdict(h).valid =>
                   /\ Cardinality(ResponsesOf(h)) = 1
                   /\ \A i \in ResponsesOf(h) :
                          /\ ~outbox[i].response.success
                          /\ outbox[i].response.error = Verdict(h).error
                          /\ outbox[i].response.signature = Nil
            /\ (Verdict(h).valid /\ handlers[h].pc = "done" /\ handlers[h].keyPair = Nil
                   /\ ~handlers[h].failed) =>
                   /\ ~handlers[h].signed
                   /\ Cardinality(ResponsesOf(h)) = 1
                   /\ \A i \in ResponsesOf(h) :
                          /\ ~outbox[i].response.success
                          /\ outbox[i].response.error = NoKeyPairMsg
                          /\ outbox[i].response.signature = Nil

\* C7 witness: one SIGN request has been answered with a signature, another
\* with the reason its proof was rejected for.
C7_Witness ==
    \E g, h \in 1..Len(handlers) :
        /\ IsSign(g) /\ IsSign(h)
        /\ \E i \in ResponsesOf(g) : outbox[i].response.signature # Nil
        /\ ~Verdict(h).valid
        /\ \E i \in ResponsesOf(h) :
               outbox[i].response.error =
                   "Action context mismatch: proof=\"Delete Account\" action=\"Transfer Funds\""

\* C8 (as claimed): at most one handleMessage invocation is in progress at
\* any time, and no SIGN has signed with a key pair that was no longer the
\* stored one.
C8_OneAtATime ==
    /\ Cardinality({h \in 1..Len(handlers) : handlers[h].pc \notin {"done", "dropped"}}) <= 1
    /\ \A h \in 1..Len(handlers) : ~handlers[h].staleKey

\* C9: the dispatch of a message whose origin is not in ALLOWED_ORIGINS
\* posts nothing and leaves the key store as it was, its invocation returns
\* at once, and no response is ever posted for it.
C9_UnlistedOriginDropped ==
    /\ [][ (Len(handlers') = Len(handlers) + 1 /\ handlers'[Len(handlers')].origin \notin ALLOWED_ORIGINS)
              => /\ handlers'[Len(handlers')].pc = "dropped"
                 /\ UNCHANGED <<keyStore, keysMade, outbox>> ]_vars
    /\ [](\A h \in 1..Len(handlers) :
              ~Listed(h) => /\ ResponsesOf(h) = {}
                            /\ handlers[h].pc = "dropped"
                            /\ ~handlers[h].signed
                            /\ handlers[h].keyPair = Nil)

\* C9 witness: a SIGN request from an unlisted origin has been dropped
\* while a key pair was stored.
C9_Witness ==
    \E h \in 1..Len(handlers) :
        /\ ~Listed(h)
        /\ Prop(handlers[h].data, "type") = JStr("SIGN")
        /\ handlers[h].pc = "dropped"
        /\ keyStore # Nil

\* C10: a well-formed request from a listed origin is never dropped, has at
\* most one response, has exactly one once its invocation has returned,
\* and that response carries its requestId and is posted to its origin.
C10_OneResponseToSender ==
    \A h \in 1..Len(handlers) :
        (Listed(h) /\ WellFormed(h)) =>
            /\ handlers[h].pc # "dropped"
            /\ Cardinality(ResponsesOf(h)) <= 1
            /\ handlers[h].pc = "done" => Cardinality(ResponsesOf(h)) = 1
            /\ \A i \in ResponsesOf(h) :
                   /\ outbox[i].response.requestId = Prop(handlers[h].data, "requestId")
                   /\ outbox[i].targetOrigin = handlers[h].origin

\* C10 witness: requests from two listed origins have each been answered,
\* one of them after its invocation waited for the key store.
C10_Witness ==
    \E g, h \in 1..Len(handlers) :
        /\ handlers[g].origin = "https://example.com"
        /\ handlers[h].origin = "http://localhost:3000"
        /\ WellFormed(g) /\ WellFormed(h)
        /\ handlers[g].pc = "done" /\ handlers[h].pc = "done"
        /\ Prop(handlers[g].data, "type") = JStr("SIGN")
        /\ \E i \in ResponsesOf(g) : outbox[i].response.success

\* C11: every accepted well-formed request whose invocation has returned
\* has exactly one response with its requestId; when an awaited key
\* generation, IndexedDB request or signing failed, or validateProof
\* rejected or threw (a SIGN without action or proof), that response is
\* success:false with an error text and carries no signature or key.
C11_FailuresAnswered ==
    \A h \in 1..Len(handlers) :
        (Listed(h) /\ WellFormed(h) /\ handlers[h].pc = "done") =>
            /\ Cardinality(ResponsesOf(h)) = 1
            /\ \A i \in ResponsesOf(h) :
                   /\ outbox[i].response.requestId = Prop(handlers[h].data, "requestId")
                   /\ (handlers[h].failed \/ (IsSign(h) /\ ~Verdict(h).valid)) =>
                          /\ ~outbox[i].response.success
                          /\ outbox[i].response.error # None
                          /\ outbox[i].response.signature = Nil
                          /\ outbox[i].response.publicKey = Nil

\* C11 witness: an INIT whose storeKeyPair rejected and a SIGN without
\* action and proof have both been answered with an error response.
C11_Witness ==
    \E g, h \in 1..Len(handlers) :
        /\ handlers[g].failed
        /\ Prop(handlers[g].data, "type") = JStr("INIT")
        /\ \E i \in ResponsesOf(g) : outbox[i].response.error = "Failed to store key pair"
        /\ IsSign(h)
        /\ Prop(handlers[h].data, "proof") = JUndef
        /\ \E i \in ResponsesOf(h) : outbox[i].response.error = TypeErrorMsg

\* C12: after an INIT that answered success, once every INIT has returned
\* without a failure and as long as no INIT has been dispatched after it,
\* the key store holds the pair that INIT generated (so a following
\* GET_PUBLIC_KEY returns its public key).
C12_InitKeyIsStored ==
    \A h \in 1..Len(handlers) :
        ( /\ Listed(h)
          /\ Prop(handlers[h].data, "type") = JStr("INIT")
          /\ handlers[h].pc = "done"
          /\ ~handlers[h].failed
          /\ \A g \in (h + 1)..Len(handlers) :
                 Prop(handlers[g].data, "type") # JStr("INIT")
          /\ \A g \in 1..Len(handlers) :
                 /\ handlers[g].pc \notin {"init_delete", "init_store", "init_export"}
                 /\ ~handlers[g].failed )
        => keyStore = handlers[h].keyPair

\* C13: one physical gesture yields at most one proof: no two calls of
\* getInteractionProof return proofs that stem from the same gesture.
C13_OneProofPerGesture ==
    \A i, j \in 1..Len(proofsGiven) :
        (i < j /\ proofsGiven[i].proof # Nil /\ proofsGiven[j].proof # Nil) =>
            proofsGiven[i].proof.gesture # proofsGiven[j].proof.gesture

\* C14: once deleteSession(id) has completed, getSession(id) returns null
\* from then on, whatever protected requests (their touchSession step
\* included) are in flight.
C14_DeletedStaysDeleted ==
    \A sid \in deleted : getSession(sid) = Nil

\* C15: after SessionManager.logout() has completed, the server holds the
\* logged-out session no more: getSession for its id returns null.
C15_LogoutDeletesSession ==
    \A sid \in loggedOut : getSession(sid) = Nil

\* C16: after the logout flow, and until the next INIT, the signing
\* context holds no key pair.
C16_LogoutDestroysKey ==
    (loggedOut # {} /\ sessionManager.sessionId = None /\ loginPending = Nil) =>
        keyStore = Nil

\* C17: a performSecureAction run by a real click, with a key pair made by
\* INIT and registered by a login whose session is live, ends with the
\* nonce fetched and no error.
C17_LegitimateFlowSucceeds ==
    \A i \in 1..Len(outcomes) :
        (outcomes[i].sessionLive /\ outcomes[i].keyRegistered) =>
            (outcomes[i].nonceFetched /\ outcomes[i].error = None)

\* C18: a request whose timer has fired was pending for at least 10 s, is
\* rejected with 'Signing request timed out' and has no pendingRequests
\* entry; a response that arrives afterwards changes none of this.
C18_TimeoutRejectsAndForgets ==
    \A c \in 1..Len(calls) :
        calls[c].timerFired =>
            /\ calls[c].result = TimedOut
            /\ calls[c].settledAt - calls[c].sentAt >= REQUEST_TIMEOUT_MS
            /\ calls[c].requestId \notin DOMAIN pendingRequests

\* C18 witness: a request timed out, and then a response carrying its
\* requestId arrived from the iframe.
C18_Witness ==
    \E c \in 1..Len(calls) :
        calls[c].timerFired /\ calls[c].late /\ calls[c].result = TimedOut

\* C19: in both validators a proof whose freshness is now - 5000 ms passes
\* the freshness check, one whose freshness is now - 5001 ms is rejected
\* as expired, and one whose freshness lies further ahead of now than the
\* validator's clock-skew tolerance (none in the signer, 5000 ms in the
\* server) is rejected as from the future.
C19_FreshnessBoundary ==
    proofOut # Nil =>
        LET freshness == Prop(proofIn.proof, "freshness")
            ahead == freshness.v - proofIn.t
            stale == {"Interaction proof expired", "Interaction proof from the future"}
        IN  freshness.t = "num" =>
              /\ ahead = -MAX_PROOF_AGE_MS =>
                     /\ proofOut.signer.error \notin stale
                     /\ proofOut.server.error \notin stale
              /\ ahead = -(MAX_PROOF_AGE_MS + 1) =>
                     /\ ~proofOut.signer.valid
                     /\ proofOut.signer.error = "Interaction proof expired"
                     /\ ~proofOut.server.valid
                     /\ proofOut.server.error = "Interaction proof expired"
              /\ ahead > 0 =>
                     /\ ~proofOut.signer.valid
                     /\ proofOut.signer.error = "Interaction proof from the future"
              /\ ahead > ServerClockSkewMs =>
                     /\ ~proofOut.server.valid
                     /\ proofOut.server.error = "Interaction proof from the future"

\* C19 witness: a proof exactly 5000 ms old, otherwise in order, has been
\* accepted by both validators.
C19_Witness ==
    /\ proofOut # Nil
    /\ Prop(proofIn.proof, "freshness") = JNum(proofIn.t - MAX_PROOF_AGE_MS)
    /\ proofOut.signer.valid
    /\ proofOut.server.valid

\* C20 (as claimed): every request submitted, with its three headers, with
\* a nonce that an earlier request has spent is rejected with 'Invalid or
\* reused nonce'.
C20_LaterRequestRejectedForNonce ==
    \A r \in 1..Len(reqs) :
        ( /\ reqs[r].afterSpent
          /\ reqs[r].pc = "done"
          /\ reqs[r].sessionId # None
          /\ reqs[r].signature # Nil ) =>
            /\ reqs[r].result = "invalid"
            /\ reqs[r].error = "Invalid or reused nonce"

\* C20 (amended): a nonce for which validateAndConsumeNonce has returned
\* true is gone, whatever became of the request that spent it; a request
\* submitted with it afterwards is never authorized: it is rejected with
\* 'Invalid or reused nonce' when it reaches the nonce step, and before
\* that step when a header is missing or getSession does not find its
\* session.
C20_SpentNonceStaysSpent ==
    /\ \A n \in returnedTrue : ~validateAndConsumeNonce(n)
    /\ \A r \in 1..Len(reqs) :
           (reqs[r].afterSpent /\ reqs[r].pc = "done") =>
               /\ reqs[r].result = "invalid"
               /\ IF reqs[r].nonce # None
                  THEN reqs[r].error = "Invalid or reused nonce"
                  ELSE reqs[r].error \in
                          { "Missing X-Session-ID header", "Missing X-Signature header",
                            "Invalid or expired session" }

\* C20 witness: a request spent the nonce and was then rejected, and a
\* request submitted afterwards with the same nonce was rejected with
\* 'Invalid or reused nonce'.
C20_Witness ==
    \E r, s \in 1..Len(reqs) :
        /\ reqs[r].nonceValid
        /\ reqs[r].result = "invalid"
        /\ reqs[s].afterSpent
        /\ reqs[s].nonce = reqs[r].nonce
        /\ reqs[s].pc = "done"
        /\ reqs[s].error = "Invalid or reused nonce"

\* The signature header of q was made with the private key whose public key
\* the login of q's session registered (session i registers key pair i).
MadeBySessionKey(q) ==
    /\ IsBase64Signature(q.signature)
    /\ \E i \in 1..MaxSessions :
          /\ q.sessionId = SessionName(i)
          /\ base64ToArrayBuffer(q.signature).signedBy = Priv(i).id

\* C21: a protected request that names a session the server created but
\* has no X-Signature header, or no X-Interaction-Proof header, or a
\* signature not made with the private key of the session's registered
\* public key, is never authorized: it never passes the signature step and
\* verifyRequest never returns valid for it.
C21_SessionIdAloneAuthorizesNothing ==
    \A r \in 1..Len(reqs) :
        ( /\ reqs[r].sessionId \in generated \cap SessionPool
          /\ \/ reqs[r].signature = Nil
             \/ reqs[r].proofJson = Nil
             \/ ~MadeBySessionKey(reqs[r]) )
            => /\ reqs[r].result # "valid"
               /\ reqs[r].pc \notin {"touchGet", "touchStore"}

\* C21 witness: a request whose session was found and whose nonce was
\* consumed, carrying a signature another private key made over the very
\* action and proof sent, was rejected at the signature step.
C21_Witness ==
    \E r \in 1..Len(reqs) :
        /\ reqs[r].session # Nil
        /\ reqs[r].nonceValid
        /\ IsBase64Signature(reqs[r].signature)
        /\ ~MadeBySessionKey(reqs[r])
        /\ reqs[r].pc = "done"
        /\ reqs[r].error = "Signature verification failed"

\* handleRequest, POST /api/protected/action (server.ts 480-521): the HTTP
\* status answered for a finished verifyRequest.  valid:false gives 401, an
\* exception leaving verifyRequest is caught by handleRequest and gives 500.
protectedActionStatus(q) ==
    IF q.result = "threw" THEN 500
    ELSE IF q.result = "invalid" THEN 401
    ELSE 200

\* C22 (as claimed): every protected request that has been answered and was
\* not authorized was answered with status 401.
C22_UnauthorizedIs401 ==
    \A r \in 1..Len(reqs) :
        (reqs[r].pc = "done" /\ reqs[r].result # "valid")
            => protectedActionStatus(reqs[r]) = 401

-----------------------------------------------------------------------------
(***************************************************************************)
(* Claims about canonicalize, checked under SpecCodec.                     *)
(***************************************************************************)

\* v with the keys of every object in it, at every depth, inserted in the
\* reverse order; arrays keep their order.
RECURSIVE DeepReverse(_)
DeepReverse(v) ==
    IF v.t = "obj"
    THEN JObj([i \in 1..Len(v.v) |->
                  KV(v.v[Len(v.v) + 1 - i].k, DeepReverse(v.v[Len(v.v) + 1 - i].val))])
    ELSE IF v.t = "arr" THEN JArr([i \in 1..Len(v.v) |-> DeepReverse(v.v[i])])
    ELSE v

\* The objects with the key/value pairs of obj: every insertion order of
\* its own keys, with the nested objects as given or reversed throughout.
Reorderings(obj) ==
    LET n == Len(obj.v)
        bijections == {p \in [1..n -> 1..n] : \A i, j \in 1..n : p[i] = p[j] => i = j}
    IN  {JObj([i \in 1..n |-> obj.v[p[i]]]) : p \in bijections}
        \cup {JObj([i \in 1..n |-> DeepReverse(obj).v[p[i]]]) : p \in bijections}

\* v with every undefined in it replaced by null.
RECURSIVE UndefinedToNull(_)
UndefinedToNull(v) ==
    IF v.t = "undef" THEN JNull
    ELSE IF v.t = "obj"
    THEN JObj([i \in 1..Len(v.v) |-> KV(v.v[i].k, UndefinedToNull(v.v[i].val))])
    ELSE IF v.t = "arr" THEN JArr([i \in 1..Len(v.v) |-> UndefinedToNull(v.v[i])])
    ELSE v

\* v with the elements of a top-level array reversed.
ReverseArray(v) == JArr([i \in 1..Len(v.v) |-> v.v[Len(v.v) + 1 - i]])

\* C23: on both sides, every reordering of the drawn action's keys (each
\* insertion order of its own keys, nested objects reversed or not) has the
\* canonical string of the action, and the message computed is the message
\* of the action and the proof with their keys reversed at every depth; an
\* array payload is written element by element in the
\* given order, so that reversing an array of two different elements
\* changes the string; and undefined is written as null is, alone and
\* inside objects.
C23_CanonicalizeOrderInsensitive ==
    codecOut # Nil =>
        LET action == codecIn.action
            proof == codecIn.proof
            payload == Prop(action, "payload")
            server == canonicalize(action)
            signer == canonicalizeSigner(action)
        IN  /\ \A a \in Reorderings(action) :
                  /\ canonicalize(a) = server
                  /\ canonicalizeSigner(a) = signer
            /\ createCanonicalMessage(DeepReverse(action), DeepReverse(proof),
                                      codecIn.nonce) = codecOut.serverMessage
            /\ createCanonicalMessageSigner(DeepReverse(action), DeepReverse(proof),
                                            codecIn.nonce) = codecOut.signerMessage
            /\ payload.t = "arr" =>
                  /\ canonicalize(payload) =
                         "[" \o Join([i \in 1..Len(payload.v) |->
                                         canonicalize(payload.v[i])]) \o "]"
                  /\ canonicalizeSigner(payload) = canonicalize(payload)
                  /\ (Len(payload.v) = 2 /\ payload.v[1] # payload.v[2])
                         => /\ canonicalize(ReverseArray(payload)) # canonicalize(payload)
                            /\ canonicalizeSigner(ReverseArray(payload))
                                   # canonicalizeSigner(payload)
            /\ canonicalize(JUndef) = canonicalize(JNull)
            /\ canonicalizeSigner(JUndef) = canonicalizeSigner(JNull)
            /\ createCanonicalMessage(UndefinedToNull(action), proof, codecIn.nonce)
                   = codecOut.serverMessage
            /\ createCanonicalMessageSigner(UndefinedToNull(action), proof, codecIn.nonce)
                   = codecOut.signerMessage

\* C23 witness: the message was computed for an action whose keys are in
\* reverse source order and whose payload has its keys out of sorted order
\* and holds an undefined.
C23_Witness ==
    /\ codecOut # Nil
    /\ codecIn.action =
           ReverseKeys(MkAction(JStr("Transfer Funds"),
               JObj(<<KV("to", JUndef), KV("amount", JNum(250))>>)))
    /\ codecIn.proof = ReverseKeys(CodecProofBase("nonce-0000000001"))

-----------------------------------------------------------------------------
(***************************************************************************)
(* Claims checked under SpecStore.                                         *)
(***************************************************************************)

StoredUnexpiredUnconsumed(nonce) ==
    /\ \E k \in 1..Len(nonceReqs) :
          /\ nonceReqs[k].nonce = nonce
          /\ nonceReqs[k].status = 200
          /\ now < nonceReqs[k].storedAt + NONCE_TTL * 1000
    /\ nonce \notin returnedTrue

\* C25: every validateAndConsumeNonce call returns true exactly when its
\* nonce was stored, its 300 s TTL has not elapsed at the time of the call
\* and no earlier call returned true for it; a nonce never stored, one
\* whose TTL has elapsed (consumed or not) and one already consumed all
\* give false.
C25_ConsumableOnlyWithinTTL ==
    [][ \A r \in 1..Len(reqs) :
            (reqs[r].pc = "nonceCall" /\ reqs'[r].pc # "nonceCall")
                => (reqs'[r].nonceValid <=> StoredUnexpiredUnconsumed(reqs[r].nonce)) ]_vars

\* C25 witness: a call for a nonce that was stored and never consumed, made
\* at or after the end of its TTL while the session was still found, has
\* returned false.
C25_Witness ==
    \E r \in 1..Len(reqs), k \in 1..Len(nonceReqs) :
        /\ nonceReqs[k].nonce = reqs[r].nonce
        /\ nonceReqs[k].status = 200
        /\ now = nonceReqs[k].storedAt + NONCE_TTL * 1000
        /\ reqs[r].nonce \notin returnedTrue
        /\ reqs[r].session # Nil
        /\ reqs[r].pc = "done"
        /\ ~reqs[r].nonceValid
        /\ reqs[r].error = "Invalid or reused nonce"


\* C26 (as claimed): a protected request whose session lookup happens
\* later than the session's expiresAt (creation time + SESSION_TTL) gets no
\* session from getSession and is rejected with 'Invalid or expired
\* session', whatever activity the session had before.
C26_SessionEndsAtExpiresAt ==
    [][ \A r \in 1..Len(reqs) :
            ( /\ reqs[r].pc = "getSession"
              /\ reqs'[r].pc # "getSession"
              /\ MapHas(inMemoryStore, sessionKey(reqs[r].sessionId))
              /\ now > inMemoryStore[sessionKey(reqs[r].sessionId)].json.expiresAt )
                => /\ reqs'[r].session = Nil
                   /\ reqs'[r].error = "Invalid or expired session" ]_vars

-----------------------------------------------------------------------------
(***************************************************************************)
(* Further claims checked under SpecProof.                                 *)
(***************************************************************************)

\* The conditions C27 lists, read off the proof's fields as numbers,
\* strings and arrays.
ProofAgeWithin(proof, t) ==
    /\ Prop(proof, "freshness").t = "num"
    /\ t - Prop(proof, "freshness").v >= -5000
    /\ t - Prop(proof, "freshness").v <= 5000

ProofTimingInOrder(proof) ==
    LET trajectory == Prop(proof, "trajectory")
    IN  /\ trajectory.t = "arr"
        /\ \A i \in 2..Len(trajectory.v) :
              LET a == Prop(trajectory.v[i - 1], "timestamp")
                  b == Prop(trajectory.v[i], "timestamp")
              IN  a.t = "num" /\ b.t = "num" /\ b.v - a.v >= 0 /\ b.v - a.v <= 2000

\* The error of the first condition, in the order of C27, that the proof
\* fails; None when it fails none.
FirstFailingCheck(proof, action, t) ==
    IF ~ProofAgeWithin(proof, t)
    THEN IF Prop(proof, "freshness").t = "num" /\ t - Prop(proof, "freshness").v < -5000
         THEN "Interaction proof from the future"
         ELSE "Interaction proof expired"
    ELSE IF Prop(proof, "actionContext") # Prop(action, "displayName")
    THEN "Action context mismatch: expected \"" \o Prop(action, "displayName").v
             \o "\", got \"" \o Prop(proof, "actionContext").v \o "\""
    ELSE IF ~( Prop(proof, "trajectory").t = "arr"
               /\ Len(Prop(proof, "trajectory").v) >= 3 )
    THEN "Insufficient trajectory data"
    ELSE IF ~(Prop(proof, "velocity").t = "num" /\ Prop(proof, "velocity").v <= 10)
    THEN "Unrealistic mouse velocity detected"
    ELSE IF Prop(proof, "type") \notin {JStr("click"), JStr("submit"), JStr("keypress")}
    THEN "Invalid interaction type"
    ELSE IF ~ProofTimingInOrder(proof)
    THEN "Invalid trajectory timing"
    ELSE None

\* C27 (as claimed): validateInteractionProof accepts exactly the proofs
\* that fail none of the six conditions, and rejects a proof whose
\* freshness is a number with the error of the first condition it fails.
C27_AcceptsExactlyWhenAllHold ==
    proofOut # Nil =>
        LET expected == FirstFailingCheck(proofIn.proof, proofIn.action, proofIn.t)
        IN  /\ proofOut.server.valid <=> expected = None
            /\ (~proofOut.server.valid /\ Prop(proofIn.proof, "freshness").t = "num")
                   => proofOut.server.error = expected

-----------------------------------------------------------------------------
(***************************************************************************)
(* Further claims checked under SpecTracker.                               *)
(***************************************************************************)

\* The indices of the pool's records that match displayName and are at
\* most 5000 ms old at time t.
Qualifying(pool, displayName, t) ==
    {i \in 1..Len(pool) :
        pool[i].actionContext = displayName /\ t - pool[i].timestamp <= 5000}

\* C28: a getInteractionProof call finds, when some record of the pool
\* matches the action's displayName and is at most 5000 ms old, the most
\* recent such record (none of them is later in the pool or has a later
\* timestamp), and the pool afterwards is the pool without exactly that
\* record; when none qualifies the call returns null and the pool is
\* unchanged.  Stale and non-matching records stay where they are.
C28_MostRecentMatchTaken ==
    [][ Len(proofsGiven') > Len(proofsGiven) =>
          LET call == proofsGiven'[Len(proofsGiven')]
              q == Qualifying(interactions, call.action, clock)
          IN  IF q = {}
              THEN call.proof = Nil /\ interactions' = interactions
              ELSE \E m \in q :
                      /\ \A j \in q : j <= m /\ interactions[j].timestamp
                                                   <= interactions[m].timestamp
                      /\ call.proof # Nil
                      /\ call.proof.gesture = interactions[m].gesture
                      /\ call.proof.type = interactions[m].type
                      /\ call.proof.timestamp = interactions[m].timestamp
                      /\ call.proof.actionContext = call.action
                      /\ Len(interactions') = Len(interactions) - 1
                      /\ \A j \in 1..Len(interactions') :
                            interactions'[j] =
                                interactions[IF j < m THEN j ELSE j + 1] ]_vars

\* C28 witness: a call returned a record while an earlier record of the
\* same context (made by another gesture) stayed in the pool, and a call
\* returned null while a record of its context, too old by then, stayed
\* in the pool.
C28_Witness ==
    /\ \E c \in 1..Len(proofsGiven), i \in 1..Len(interactions) :
          /\ proofsGiven[c].proof # Nil
          /\ interactions[i].actionContext = proofsGiven[c].action
          /\ interactions[i].gesture # proofsGiven[c].proof.gesture
          /\ interactions[i].timestamp < proofsGiven[c].proof.timestamp
    /\ \E c \in 1..Len(proofsGiven), i \in 1..Len(interactions) :
          /\ proofsGiven[c].proof = Nil
          /\ interactions[i].actionContext = proofsGiven[c].action
          /\ interactions[i].gesture <= proofsGiven[c].gesturesBefore

-----------------------------------------------------------------------------
(***************************************************************************)
(* Claims checked under SpecBuffers.                                       *)
(***************************************************************************)

\* The last n elements of a sequence (all of it when it is shorter).
LastN(seq, n) ==
    IF Len(seq) <= n THEN seq ELSE SubSeq(seq, Len(seq) - n + 1, Len(seq))

\* The records in a pool that the given gesture produced.
RecordsOf(pool, gesture) == SelectSeq(pool, LAMBDA rec : rec.gesture = gesture)

\* C29: after every step the trajectory buffer holds at most 100 points
\* and the pool at most 20 records.  A mousemove leaves the buffer as the
\* last 100 of the old points followed by the new one: the new point is
\* kept, and on overflow the point dropped is the oldest.  A click, submit
\* click or Enter press leaves the pool as the last 20 of the old records
\* followed by the new ones, in the same way.
C29_BuffersBounded ==
    [][ /\ Len(trajectoryPoints') <= 100
        /\ Len(interactions') <= 20
        /\ moves' > moves =>
              /\ trajectoryPoints'[Len(trajectoryPoints')].seq = moves'
              /\ trajectoryPoints' =
                     LastN(Append(trajectoryPoints,
                                  trajectoryPoints'[Len(trajectoryPoints')]), 100)
        /\ gestures' > gestures =>
              /\ interactions'[Len(interactions')].gesture = gestures'
              /\ interactions' =
                     LastN(interactions \o RecordsOf(interactions', gestures'), 20) ]_vars

\* C29 witness: both buffers have overflowed: the buffer holds 100 points
\* and the pool 20 records, the newest point and the newest record are in
\* them, and the oldest point and the oldest record of the start are gone.
C29_Witness ==
    /\ Len(trajectoryPoints) = 100
    /\ moves >= 2
    /\ trajectoryPoints[100].seq = moves
    /\ trajectoryPoints[1].seq = moves - 99
    /\ Len(interactions) = 20
    /\ gestures >= 1
    /\ interactions[20].gesture = gestures
    /\ interactions[1].gesture > -19
    /\ Len(proofsGiven) = 0

-----------------------------------------------------------------------------
(***************************************************************************)
(* Further claims checked under SpecClient.                                *)
(***************************************************************************)

\* C30: every sendRequest promise that has been resolved was resolved with
\* a response that carries the call's own requestId and came from the
\* signing iframe's origin, and its entry is gone from pendingRequests;
\* every call that is neither resolved nor timed out still has its entry.
C30_ResolvedByOwnResponse ==
    \A c \in 1..Len(calls) :
        IF calls[c].result = Nil
        THEN calls[c].requestId \in DOMAIN pendingRequests
        ELSE /\ calls[c].requestId \notin DOMAIN pendingRequests
             /\ calls[c].result.kind = "resolved" =>
                   /\ calls[c].result.value.requestId = calls[c].requestId
                   /\ calls[c].result.value.origin = SIGNING_IFRAME_URL

\* C30 witness: with two requests outstanding, the response to the second
\* arrived first and resolved the second, while the first was still
\* pending; then the response to the first resolved the first.
C30_Witness ==
    /\ Len(calls) = 2
    /\ calls[1].result # Nil
    /\ calls[2].result # Nil
    /\ calls[1].result.kind = "resolved"
    /\ calls[2].result.kind = "resolved"
    /\ calls[2].sentAt < calls[2].settledAt
    /\ calls[2].settledAt < calls[1].settledAt
    /\ calls[1].sentAt <= calls[2].sentAt

-----------------------------------------------------------------------------
(***************************************************************************)
(* Claims checked under SpecClientLive.                                    *)
(***************************************************************************)

\* How the sendRequest call that was given requestId has ended: Nil while
\* it waits for READY or for its response.
Outcome(requestId) ==
    IF \E c \in 1..Len(calls) : calls[c].requestId = requestId
    THEN calls[CallOf(requestId)].result
    ELSE LET w == CHOOSE w \in 1..Len(readyWaits) : readyWaits[w].requestId = requestId
         IN  IF readyWaits[w].result = FailedToLoad THEN FailedToLoad ELSE Nil

\* The requestIds of the sendRequest calls made so far.
Called ==
    {calls[c].requestId : c \in 1..Len(calls)}
        \cup {readyWaits[w].requestId : w \in 1..Len(readyWaits)}

\* A settled call ended in one of the three ways, and pendingRequests holds
\* exactly the entries of the calls that wait for their response.
SettledAndForgotten ==
    /\ \A requestId \in Called :
          LET outcome == Outcome(requestId)
          IN  /\ outcome # Nil =>
                    /\ requestId \notin DOMAIN pendingRequests
                    /\ \/ outcome = TimedOut
                       \/ outcome = FailedToLoad
                       \/ /\ outcome.kind = "resolved"
                          /\ outcome.value.requestId = requestId
              /\ requestId \in DOMAIN pendingRequests =>
                    \E c \in 1..Len(calls) :
                        calls[c].requestId = requestId /\ calls[c].result = Nil
    /\ DOMAIN pendingRequests \subseteq Called

\* A call that has settled keeps its outcome.
SettlesOnce ==
    \A requestId \in Called :
        Outcome(requestId) # Nil => Outcome(requestId)' = Outcome(requestId)

\* The i-th requestId has been given to a call, and that call has settled.
Made(i) == RequestName(i) \in Called
Settled(i) == Made(i) /\ Outcome(RequestName(i)) # Nil

-----------------------------------------------------------------------------
(***************************************************************************)
(* Claims checked under SpecSession.                                       *)
(***************************************************************************)

\* The fields of a stored session that nothing may change.
SameButLastAccess(before, after) ==
    /\ after.sessionId = before.sessionId
    /\ after.userId = before.userId
    /\ after.publicKey = before.publicKey
    /\ after.createdAt = before.createdAt
    /\ after.expiresAt = before.expiresAt
    /\ after.ipAddress = before.ipAddress
    /\ after.userAgent = before.userAgent

\* A step in which the value stored for session sid is replaced by another.
StoredSessionChanges(sid) ==
    /\ sessionKey(sid) \in DOMAIN inMemoryStore
    /\ sessionKey(sid) \in DOMAIN inMemoryStore'
    /\ inMemoryStore'[sessionKey(sid)] # inMemoryStore[sessionKey(sid)]

\* C32: a step that replaces the value stored for a session is the
\* storeSession call of touchSession inside a protected request that
\* verifyRequest authorizes, and the new value differs from the old one in
\* lastAccess only; every other step (rejected requests, GET /api/nonce,
\* GET /api/session/info) leaves the stored value as it was.
C32_OnlyTouchChangesLastAccess ==
    [][\A sid \in SessionPool :
          StoredSessionChanges(sid) =>
              /\ SameButLastAccess(inMemoryStore[sessionKey(sid)].json,
                                   inMemoryStore'[sessionKey(sid)].json)
              /\ \E r \in 1..Len(reqs) :
                    /\ reqs[r].sessionId = sid
                    /\ reqs[r].pc = "touchStore"
                    /\ reqs'[r].result = "valid"]_vars

\* C32 witness: an authorized request has moved lastAccess of the stored
\* session, another request was rejected, and GET /api/session/info and
\* GET /api/nonce were answered for the session.
C32_Witness ==
    \E sid \in SessionPool :
        /\ getSession(sid) # Nil
        /\ getSession(sid).lastAccess > getSession(sid).createdAt
        /\ \E r \in 1..Len(reqs) : reqs[r].sessionId = sid /\ reqs[r].result = "valid"
        /\ \E r \in 1..Len(reqs) : reqs[r].sessionId = sid /\ reqs[r].result = "invalid"
        /\ \E i \in 1..Len(infoReqs) : infoReqs[i].status = 200 /\ infoReqs[i].body.sessionId = sid
        /\ generated \cap NoncePool # {}

-----------------------------------------------------------------------------
(***************************************************************************)
(* Further claims checked under SpecSigner.                                *)
(***************************************************************************)

\* Invocation h ran an INIT from a listed origin to its success response.
InitSucceeded(h) ==
    /\ handlers[h].origin \in ALLOWED_ORIGINS
    /\ Prop(handlers[h].data, "type") = JStr("INIT")
    /\ handlers[h].pc = "done"
    /\ ~handlers[h].failed

\* The place in the outbox of the response of invocation h.
ResponseAt(h) == CHOOSE i \in 1..Len(outbox) : outbox[i].handler = h

\* C33 (as claimed): when two INIT invocations were in progress together
\* and both have posted their success response, nothing else having
\* touched the key store, the stored key pair is the one whose public key
\* is in the response posted last.
C33_LastResponseKeyIsStored ==
    \A g \in 1..Len(handlers), h \in 1..Len(handlers) :
        ( /\ g \in handlers[h].during
          /\ InitSucceeded(g)
          /\ InitSucceeded(h)
          /\ ResponseAt(g) < ResponseAt(h)
          /\ \A f \in 1..Len(handlers) :
                 f \notin {g, h} => Prop(handlers[f].data, "type") # JStr("INIT") )
        => /\ keyStore # Nil
           /\ outbox[ResponseAt(h)].response.publicKey = exportPublicKey(keyStore.publicKey)


\* Invocation h ran an INIT from a listed origin that failed in
\* generateKeyPair (it never held a key pair) or in storeKeyPair.
InitFailedMakingKey(h) ==
    /\ handlers[h].origin \in ALLOWED_ORIGINS
    /\ Prop(handlers[h].data, "type") = JStr("INIT")
    /\ handlers[h].pc = "done"
    /\ handlers[h].failed
    /\ \E i \in 1..Len(outbox) :
          /\ outbox[i].handler = h
          /\ ~outbox[i].response.success
          /\ \/ outbox[i].response.error = "OperationError" /\ handlers[h].keyPair = Nil
             \/ outbox[i].response.error = "Failed to store key pair"

\* Invocation g, begun after h, is a GET_PUBLIC_KEY or a SIGN that has
\* looked for the key pair and answered.
AskedForKeyAfter(h, g) ==
    /\ g > h
    /\ handlers[g].origin \in ALLOWED_ORIGINS
    /\ handlers[g].pc = "done"
    /\ ~handlers[g].failed
    /\ \/ Prop(handlers[g].data, "type") = JStr("GET_PUBLIC_KEY")
       \/ /\ Prop(handlers[g].data, "type") = JStr("SIGN")
          /\ \E i \in 1..Len(outbox) :
                /\ outbox[i].handler = g
                /\ \/ outbox[i].response.success
                   \/ outbox[i].response.error = NoKeyPairMsg

\* C34 (as claimed): once an INIT has failed in key generation or in
\* storage, and while no INIT is dispatched after it, the key store is
\* empty, and every later GET_PUBLIC_KEY, and every later SIGN that gets
\* as far as looking for the key pair, answers 'No key pair found.
\* Initialize first.'.
C34_FailedInitLeavesNoKey ==
    \A h \in 1..Len(handlers) :
        ( /\ InitFailedMakingKey(h)
          /\ \A f \in (h + 1)..Len(handlers) : Prop(handlers[f].data, "type") # JStr("INIT") )
        => /\ keyStore = Nil
           /\ \A g \in 1..Len(handlers) :
                 (AskedForKeyAfter(h, g) /\ h \notin handlers[g].during) =>
                     \A i \in 1..Len(outbox) :
                         outbox[i].handler = g =>
                             /\ ~outbox[i].response.success
                             /\ outbox[i].response.error = NoKeyPairMsg

-----------------------------------------------------------------------------
(***************************************************************************)
(* Claims checked under SpecReplay.                                        *)
(***************************************************************************)

\* Request r carries the session id and the signature of a request the
\* client built, with another proof header or another body.
AlteredAfterSigning(r) ==
    \E b \in signedReqs :
        /\ reqs[r].sessionId = b.sessionId
        /\ reqs[r].signature = b.signature
        /\ (reqs[r].proofJson # b.proofJson \/ reqs[r].body # b.body)

\* The bytes the signature of request r was made over.
SignedBytes(r) == base64ToArrayBuffer(reqs[r].signature).over

\* C35: a request that carries a signed request's signature with a changed
\* proof (its nonce replaced by one that is stored and unconsumed, or
\* another field changed) or a changed body is never authorized, and when
\* the server gets as far as rebuilding the message, the message differs
\* from the signed one.
C35_AlteredRequestNotAuthorized ==
    \A r \in 1..Len(reqs) :
        AlteredAfterSigning(r) =>
            /\ reqs[r].result # "valid"
            /\ reqs[r].pc \notin {"touchGet", "touchStore"}
            /\ reqs[r].action # Nil =>
                   Encode(createCanonicalMessage(reqs[r].action, reqs[r].proof, reqs[r].nonce))
                       # SignedBytes(r)

\* C35 witness: the request as built was authorized; sent again with the
\* second, unconsumed nonce in its proof it passed the nonce step and was
\* rejected at the signature.
C35_Witness ==
    \E r \in 1..Len(reqs), s \in 1..Len(reqs) :
        /\ r < s
        /\ Content(reqs[r]) \in signedReqs
        /\ reqs[r].result = "valid"
        /\ AlteredAfterSigning(s)
        /\ reqs[s].nonce = NonceName(MaxNonces + 1)
        /\ reqs[s].nonceValid
        /\ reqs[s].result = "invalid"
        /\ reqs[s].error = "Signature verification failed"

-----------------------------------------------------------------------------
\* C36: a protected request that fails before the nonce step (a missing
\* X-Session-ID, X-Signature or X-Interaction-Proof header, an unknown or
\* expired session, a proof that does not parse, a proof without a nonce)
\* leaves the nonce store unchanged: in the step in which verifyRequest
\* turns it away every nonce entry and its deadline stay as they were, and
\* every nonce validateAndConsumeNonce would have accepted before, the one
\* the request names included, it would still accept.
BeforeNonceStepErrors ==
    { "Missing X-Session-ID header", "Missing X-Signature header",
      "Missing X-Interaction-Proof header", "Invalid or expired session",
      "Invalid interaction proof format", "Missing nonce in proof" }

FailedBeforeNonceStep(q) ==
    /\ q.pc = "done"
    /\ q.result = "invalid"
    /\ q.error \in BeforeNonceStepErrors

Consumable == {n \in NoncePool \cup {NonceName(0)} : validateAndConsumeNonce(n)}

\* The nonce a request names in its X-Interaction-Proof header, if any.
NamedNonce(q) ==
    IF ProofParses(q) /\ ~IsNullish(q.proofJson.json)
           /\ Truthy(Prop(q.proofJson.json, "nonce"))
    THEN TemplateString(Prop(q.proofJson.json, "nonce"))
    ELSE None

C36_EarlyFailureKeepsNonces ==
    [][\A r \in 1..Len(reqs') :
          (FailedBeforeNonceStep(reqs'[r]) /\ (r > Len(reqs) \/ reqs[r].pc # "done"))
          => /\ NonceEntries(inMemoryStore') = NonceEntries(inMemoryStore)
             /\ NonceEntries(inMemoryExpiry') = NonceEntries(inMemoryExpiry)
             /\ Consumable' = Consumable]_vars

\* Requests made with each of the six failures have been turned away, one
\* of them naming a nonce that is still consumable, and one after the
\* session's TTL has run out.
C36_Witness ==
    /\ \E r \in 1..Len(reqs) :
          /\ FailedBeforeNonceStep(reqs[r])
          /\ reqs[r].error = "Invalid or expired session"
          /\ NamedNonce(reqs[r]) \in Consumable
    /\ \E r \in 1..Len(reqs) :
          /\ FailedBeforeNonceStep(reqs[r])
          /\ reqs[r].error \in {"Invalid interaction proof format", "Missing nonce in proof",
                                "Missing X-Signature header"}

-----------------------------------------------------------------------------
\* C37: the createCanonicalMessage variant of part_004, which serialises
\* with JSON.stringify and the sorted list of the top-level keys, returns
\* for every action, proof and nonce the same string as the server's
\* createCanonicalMessage, nested payloads, positions and trajectory
\* points included.
C37_StringifyVariantSameMessage ==
    codecOut # Nil => codecOut.stringifyMessage = codecOut.serverMessage

-----------------------------------------------------------------------------
\* C38: the acceleration stored in a recorded interaction is the change in
\* velocity: the velocity computed for this event minus the value
\* lastVelocity had before this event.
C38_AccelerationIsVelocityChange ==
    \A i \in 1..Len(interactions) :
        interactions[i].gesture >= 1
        => interactions[i].acceleration =
               Difference(interactions[i].velocity, interactions[i].velocityBefore)

-----------------------------------------------------------------------------
\* C39: the client never retries on its own: one call of APIClient.request
\* fetches at most one nonce, consumes at most one interaction record,
\* sends at most one SIGN request and at most one protected HTTP request;
\* a failure at any step is thrown to the caller; and a new attempt, made
\* after a call that had its proof and failed, gets a proof only from a
\* new gesture, never from the gesture that backed the failed call.
OneOfEach(call) ==
    /\ call.noncesFetched <= 1
    /\ call.recordsConsumed <= 1
    /\ call.signsSent <= 1
    /\ call.requestsSent <= 1

FailureThrown(call) ==
    /\ call.result = "threw" <=> call.error # None
    /\ call.result = "threw" => call.pc = "done"
    /\ (call.signsSent = 1 => call.recordsConsumed = 1)
    /\ (call.requestsSent = 1 => call.signsSent = 1)

C39_NoRetryNewProofNeedsNewGesture ==
    /\ \A c \in 1..Len(apiCalls) : OneOfEach(apiCalls[c]) /\ FailureThrown(apiCalls[c])
    /\ \A d \in 1..Len(apiCalls) : \A c \in apiCalls[d].failedBefore :
          (apiCalls[c].proof # Nil /\ apiCalls[d].proof # Nil)
          => apiCalls[d].proof.gesture # apiCalls[c].proof.gesture

-----------------------------------------------------------------------------
\* C40: nonce consumption does not depend on the session: a nonce issued
\* through GET /api/nonce, to whichever session, is consumed the first time
\* it reaches validateAndConsumeNonce within its lifetime in a protected
\* request of any existing session: the call returns true and the request
\* passes the nonce step, also when its session is not the one that
\* obtained the nonce.
IssuedTo(nonce) ==
    {nonceReqs[g].sessionId : g \in {h \in 1..Len(nonceReqs) :
                                        /\ nonceReqs[h].status = 200
                                        /\ nonceReqs[h].nonce = nonce
                                        /\ now < nonceReqs[h].storedAt + NONCE_TTL * 1000}}

C40_NonceConsumedForAnySession ==
    [][\A r \in 1..Len(reqs) :
          ( /\ reqs[r].pc = "nonceCall"
            /\ reqs'[r].pc # "nonceCall"
            /\ IssuedTo(reqs[r].nonce) # {}
            /\ reqs[r].nonce \notin returnedTrue )
          => /\ reqs'[r].nonceValid
             /\ reqs'[r].pc = "body"
             /\ reqs[r].nonce \in returnedTrue'
             /\ ~validateAndConsumeNonce(reqs[r].nonce)']_vars

\* A request of one session has been authorized with the nonce the other
\* session obtained.
C40_Witness ==
    \E r \in 1..Len(reqs) :
        /\ reqs[r].result = "valid"
        /\ reqs[r].nonceValid
        /\ reqs[r].sessionId \in TwoSessions
        /\ \E g \in 1..Len(nonceReqs) :
              /\ nonceReqs[g].status = 200
              /\ nonceReqs[g].nonce = reqs[r].nonce
              /\ nonceReqs[g].sessionId \in TwoSessions \ {reqs[r].sessionId}

Init == ServerInit /\ SignerIdle /\ CodecIdle /\ ProofIdle /\ AppIdle
Spec == Init /\ [][Next]_vars

====
